---- MODULE Spec2Model ----
(***************************************************************************)
(* Reconciliation core of the Technitium DNS provider.                     *)
(*                                                                         *)
(* Part 1: the session client (internal/client/client.go): Authenticate,   *)
(* Login, makeRequest and the retry loop of doRequest, one step per HTTP   *)
(* exchange or backoff wait.  Specification Spec.                          *)
(*                                                                         *)
(* Part 2: the DNS record resource (internal/provider/                     *)
(* dns_record_resource.go): Create, Read and Delete of one tracked         *)
(* instance against the records of the remote zone, one step per lifecycle *)
(* callback.  Specification SpecRecords.                                   *)
(*                                                                         *)
(* Part 3: two execute calls in flight on one shared client, one step per  *)
(* HTTP exchange and per access to Client.Token.  Specification            *)
(* SpecConcurrent.                                                         *)
(*                                                                         *)
(* A Go string is modelled as the sequence of its tokens.  The characters  *)
(* the code inspects (":", ".", "@", the quote, digits and signs) are      *)
(* tokens of their own; a run of other characters is one token, and no     *)
(* token is a suffix of another, so equality, suffix tests, splitting and  *)
(* trimming act on token sequences as they act on the strings.             *)
(***************************************************************************)
EXTENDS Integers, Sequences, FiniteSets, TLC

\* ------------------------------------------------------------------ bounds
\* Largest retry_attempts value a configuration supplies.
MaxRetryAttempts == 3

\* Number of execute calls (Client.DoRequest) made on one client.
MaxCalls == 2

\* Number of steps in the life of the tracked record instance: lifecycle
\* callbacks and changes that others make to the remote zone.
MaxOps == 3

\* Number of changes that no answered request of a callback made: changes
\* made by others, and attempts applied remotely whose response was lost
\* (such a callback counts for two of the steps above).
MaxChanges == 1

\* Number of records the remote zone holds.
MaxRemoteRecords == 2

\* Number of times the server lets its sessions expire.
MaxExpiries == 1

\* Number of steps in the life of the tracked zone instance.
MaxZoneOps == 3

\* ------------------------------------------------------- program constants
\* NewClient: RetryAttempts == 0 is replaced by 3.
DefaultRetryAttempts == 3

VARIABLES
    retries,     \* Client.retries
    hasCreds,    \* Client.username != "" && Client.password != ""
    Token,       \* Client.Token ("" when absent)
    pc,          \* position of the execute call in flight
    attempt,     \* loop index of doRequest
    lastErr,     \* doRequest's lastErr (<<>> is nil)
    result,      \* error returned by the last finished DoRequest (<<>> is nil)
    cancelled,   \* the caller's context is done
    calls,       \* execute calls started so far
    trace,       \* HTTP exchanges and backoff waits of the call in flight
    lastResp,    \* the response to the latest attempt of the call in flight
    tracked,        \* the engine's state of the record instance, or Absent
    prior,          \* the state handed to the latest callback (req.State)
    declared,       \* the plan of the latest successful Create or Update
    diag,           \* the error diagnostic of the latest callback (<<>>: none)
    ops,            \* the callbacks run so far and whether they succeeded
    lastList,       \* the records the latest list query returned
    remoteZone,     \* the zone exists remotely
    remoteRecords,  \* the records of the remote zone, in list order
    remoteQuotes,   \* the remote API returns TXT text wrapped in quotes
    changes,        \* changes to the zone by others and by lost attempts
    imported,       \* the identity given to the latest ImportState (req.ID)
    flights,     \* the execute calls in flight on one shared client
    writing,     \* the calls in the middle of the assignment to Client.Token
    server,      \* the sessions the server accepts and has issued
    log,         \* the exchanges and token stores of the calls in flight
    zoneState,   \* the engine's state of the zone instance, or Absent
    zoneRemote,  \* the zones the remote server holds
    zoneOps      \* the zone callbacks run so far and whether they succeeded

clientVars == <<retries, hasCreds, Token, pc, attempt, lastErr, result,
                cancelled, calls, trace, lastResp>>

recVars == <<tracked, prior, declared, diag, ops, lastList, remoteZone,
             remoteRecords, remoteQuotes, changes, imported>>

\* The client's fields and one call's locals, but the shared Token.
soloVars == <<retries, hasCreds, pc, attempt, lastErr, result, cancelled,
              calls, trace, lastResp>>

concVars == <<flights, writing, server, log>>

zoneVars == <<zoneState, zoneRemote, zoneOps>>

vars == <<clientVars, recVars, concVars, zoneVars>>

\* ------------------------------------------------------------------ errors
\* An error is the sequence of the segments of its text; fmt.Errorf("ctx: %w")
\* prepends a segment.  <<>> is the nil error.
NoErr == <<>>

Wrap(prefix, err) == <<prefix>> \o err

\* strings.Contains(err.Error(), "invalid-token")
ContainsInvalidToken(err) ==
    \E i \in DOMAIN err :
        err[i] \in {"invalid-token", "invalid-token: not permitted",
                    "invalid-token-v2"}

\* --------------------------------------------------------------- responses
\* What the remote side answers to one request of makeRequest.
Messages == {"", "Zone does not exist", "invalid-token: not permitted"}

Response(conn, code, body, json, status, errorMessage, error, dataOK) ==
    [conn |-> conn, code |-> code, body |-> body, json |-> json,
     status |-> status, errorMessage |-> errorMessage, error |-> error,
     dataOK |-> dataOK]

ConnectionFailure == Response(FALSE, 0, "", FALSE, "", "", "", FALSE)

Responses ==
    {ConnectionFailure}
    \cup {Response(TRUE, c, b, FALSE, "", "", "", FALSE) :
              c \in {199, 300, 500},
              b \in {"Internal Server Error", "invalid-token: not permitted"}}
    \cup {Response(TRUE, 200, "", FALSE, "", "", "", FALSE)}
    \cup {Response(TRUE, c, "", TRUE, "ok", "", "", d) :
              c \in {200, 299}, d \in BOOLEAN}
    \cup {Response(TRUE, 200, "", TRUE, "error", m, e, TRUE) :
              m \in Messages, e \in Messages}
    \cup {Response(TRUE, 200, "", TRUE, "invalid-token", "", "", TRUE)}
    \cup {Response(TRUE, 200, "", TRUE, s, "", "", TRUE) :
              s \in {"maintenance", "invalid-token-v2"}}

\* Mutant: the remote message is dropped.
APIErrorOfDropMessage(r) == <<"API error", "unknown error">>

\* Mutant: the error field is preferred to errorMessage.
APIErrorOfErrorFirst(r) ==
    LET m1 == r.error
        m2 == IF m1 = "" THEN r.errorMessage ELSE m1
        m3 == IF m2 = "" THEN "unknown error" ELSE m2
    IN  <<"API error", m3>>

\* makeRequest's error for a response with status "error".
APIErrorOf(r) ==
    LET m1 == r.errorMessage
        m2 == IF m1 = "" THEN r.error ELSE m1
        m3 == IF m2 = "" THEN "unknown error" ELSE m2
    IN  <<"API error", m3>>

\* makeRequest: the error (or nil) of one HTTP exchange.
MakeRequest(r) ==
    IF ~r.conn THEN <<"request failed", "connection error">>
    ELSE IF r.code < 200 \/ r.code >= 300
        THEN <<"API request failed with status", r.body>>
    ELSE IF ~r.json THEN <<"failed to parse API response", "syntax error">>
    ELSE CASE r.status = "ok" ->
                  IF r.dataOK THEN NoErr
                  ELSE <<"failed to parse response data", "type error">>
           [] r.status = "error" -> APIErrorOf(r)
           [] r.status = "invalid-token" ->
                  <<"invalid-token", "session expired or invalid token">>
           [] OTHER -> <<"unexpected API status", r.status>>

\* Class of a response as recorded in the trace.
ClassOf(r) ==
    LET err == MakeRequest(r)
    IN  IF err = NoErr THEN "ok"
        ELSE IF r.conn /\ r.code >= 200 /\ r.code < 300 /\ r.json
                /\ r.status = "invalid-token" THEN "invalid-token"
        ELSE IF ContainsInvalidToken(err) THEN "mention"
        ELSE IF r.conn /\ r.code >= 200 /\ r.code < 300 /\ r.json
                /\ r.status = "error" THEN "error"
        ELSE "fail"

\* ------------------------------------------------------------------- login
\* What the remote side answers to user/login: no connection, a non-2xx
\* status, an unparseable body, or a body that decodes into LoginResponse
\* (whose token field is "" when the body carries none).
LoginResponses ==
    {[conn |-> FALSE, code |-> 0, json |-> FALSE, token |-> ""]}
    \cup {[conn |-> TRUE, code |-> 401, json |-> FALSE, token |-> ""]}
    \cup {[conn |-> TRUE, code |-> 200, json |-> FALSE, token |-> ""]}
    \cup {[conn |-> TRUE, code |-> 200, json |-> TRUE, token |-> t] :
              t \in {"", "session"}}

\* makeLoginRequest: the error (or nil) of one login exchange.
MakeLoginRequest(l) ==
    IF ~l.conn THEN <<"request failed", "connection error">>
    ELSE IF l.code < 200 \/ l.code >= 300
        THEN <<"API request failed with status", "Unauthorized">>
    ELSE IF ~l.json THEN <<"failed to parse login response", "syntax error">>
    ELSE NoErr

\* Login: the error it returns for a login exchange.
LoginErr(l) ==
    IF MakeLoginRequest(l) = NoErr THEN NoErr
    ELSE Wrap("login failed", MakeLoginRequest(l))

\* ------------------------------------------------------------ construction
\* NewClient: the retries field for a configured RetryAttempts.
NewClientRetries(ra) == IF ra = 0 THEN DefaultRetryAttempts ELSE ra

\* NewClient accepts a token, a username/password pair, or both.
ClientConfigs ==
    {c \in [token : {"", "configured"}, creds : BOOLEAN,
            ra : -1 .. MaxRetryAttempts] :
        ~(c.token = "" /\ ~c.creds)}

ClientInit ==
    \E c \in ClientConfigs :
        /\ retries = NewClientRetries(c.ra)
        /\ hasCreds = c.creds
        /\ Token = c.token
        /\ pc = "idle"
        /\ attempt = 0
        /\ lastErr = NoErr
        /\ result = NoErr
        /\ cancelled = FALSE
        /\ calls = 0
        /\ trace = <<>>
        /\ lastResp = ConnectionFailure

\* ---------------------------------------------------------------- doRequest
Event(op, out) == [op |-> op, out |-> out]

\* Mutant: one iteration too many.
LoopContinuesOneMore(a, r) == a <= r + 1

\* The loop condition of doRequest.
LoopContinues(a, r) == a <= r

\* Mutant: never re-authenticates.
ShouldReauthNever(err, creds) == FALSE

\* Mutant: re-authenticates after the first attempt only.
ShouldReauthFirstOnly(err, creds) ==
    ContainsInvalidToken(err) /\ creds /\ attempt = 0

\* The re-authentication condition of doRequest.
ShouldReauth(err, creds) == ContainsInvalidToken(err) /\ creds

\* Entering iteration a of the loop: return lastErr when the loop is over,
\* wait out the backoff before every iteration but the first, else send.
EnterIteration(a, le) ==
    /\ attempt' = a
    /\ lastErr' = le
    /\ IF ~LoopContinues(a, retries)
           THEN pc' = "done" /\ result' = le
       ELSE IF a > 0
           THEN pc' = "backoff" /\ UNCHANGED result
       ELSE pc' = "send" /\ UNCHANGED result

\* DoRequest: Authenticate, then doRequest.
DoRequest ==
    /\ pc \in {"idle", "done"}
    /\ calls < MaxCalls
    /\ calls' = calls + 1
    /\ cancelled' = FALSE
    /\ trace' = <<>>
    /\ lastResp' = ConnectionFailure
    /\ UNCHANGED <<retries, hasCreds, Token>>
    /\ UNCHANGED recVars
    /\ UNCHANGED concVars
    /\ UNCHANGED zoneVars
    /\ IF Token # ""
           THEN EnterIteration(0, NoErr)
       ELSE IF hasCreds
           THEN /\ pc' = "authLogin"
                /\ attempt' = 0
                /\ lastErr' = NoErr
                /\ UNCHANGED result
       ELSE /\ pc' = "done"
            /\ result' = <<"no authentication method available">>
            /\ attempt' = 0
            /\ lastErr' = NoErr

\* The login exchange a cancelled context allows: none reaches the server.
LoginChoices == IF cancelled THEN {CHOOSE l \in LoginResponses : ~l.conn}
                ELSE LoginResponses

\* Authenticate's Login (the stored token was empty).
AuthLogin ==
    /\ pc = "authLogin"
    /\ \E l \in LoginChoices :
        /\ trace' = Append(trace,
               Event("login", IF LoginErr(l) = NoErr THEN "ok" ELSE "fail"))
        /\ IF LoginErr(l) # NoErr
               THEN /\ pc' = "done"
                    /\ result' = LoginErr(l)
                    /\ UNCHANGED <<Token, attempt, lastErr>>
           ELSE /\ Token' = l.token
                /\ EnterIteration(0, NoErr)
    /\ UNCHANGED <<retries, hasCreds, cancelled, calls, lastResp>>
    /\ UNCHANGED recVars
    /\ UNCHANGED concVars
    /\ UNCHANGED zoneVars

\* Mutant: the wait does not look at the context.
BackoffIgnoresContext ==
    /\ pc = "backoff"
    /\ pc' = "send"
    /\ trace' = Append(trace, Event("wait", "elapsed"))
    /\ UNCHANGED <<retries, hasCreds, Token, attempt, lastErr, result,
                   cancelled, calls, lastResp>>
    /\ UNCHANGED recVars
    /\ UNCHANGED concVars
    /\ UNCHANGED zoneVars

\* The backoff wait of attempt seconds, or the context's cancellation.
Backoff ==
    /\ pc = "backoff"
    /\ IF cancelled
           THEN /\ pc' = "done"
                /\ result' = <<"context canceled">>
                /\ trace' = Append(trace, Event("wait", "cancelled"))
       ELSE /\ pc' = "send"
            /\ trace' = Append(trace, Event("wait", "elapsed"))
            /\ UNCHANGED result
    /\ UNCHANGED <<retries, hasCreds, Token, attempt, lastErr, cancelled,
                   calls, lastResp>>
    /\ UNCHANGED recVars
    /\ UNCHANGED concVars
    /\ UNCHANGED zoneVars

\* The exchange a cancelled context allows: the transport fails.
SendChoices == IF cancelled THEN {ConnectionFailure} ELSE Responses

\* One attempt: makeRequest and the handling of its error.
Send ==
    /\ pc = "send"
    /\ \E r \in SendChoices :
        LET err == MakeRequest(r) IN
        /\ trace' = Append(trace, Event("send", ClassOf(r)))
        /\ lastResp' = r
        /\ IF err = NoErr
               THEN /\ pc' = "done"
                    /\ result' = NoErr
                    /\ UNCHANGED <<attempt, lastErr>>
           ELSE IF ShouldReauth(err, hasCreds)
               THEN /\ pc' = "relogin"
                    /\ lastErr' = err
                    /\ UNCHANGED <<attempt, result>>
           ELSE EnterIteration(attempt + 1, err)
    /\ UNCHANGED <<retries, hasCreds, Token, cancelled, calls>>
    /\ UNCHANGED recVars
    /\ UNCHANGED concVars
    /\ UNCHANGED zoneVars

\* Mutant: a failed re-authentication is treated like a failed attempt.
ReloginCarriesOn ==
    /\ pc = "relogin"
    /\ \E l \in LoginChoices :
        /\ trace' = Append(trace,
               Event("relogin", IF LoginErr(l) = NoErr THEN "ok" ELSE "fail"))
        /\ Token' = IF LoginErr(l) = NoErr THEN l.token ELSE Token
        /\ EnterIteration(attempt + 1, lastErr)
    /\ UNCHANGED <<retries, hasCreds, cancelled, calls, lastResp>>
    /\ UNCHANGED recVars
    /\ UNCHANGED concVars
    /\ UNCHANGED zoneVars

\* Mutant: the attempt after a re-authentication is not counted.
ReloginSameAttempt ==
    /\ pc = "relogin"
    /\ \E l \in LoginChoices :
        /\ trace' = Append(trace,
               Event("relogin", IF LoginErr(l) = NoErr THEN "ok" ELSE "fail"))
        /\ IF LoginErr(l) # NoErr
               THEN /\ pc' = "done"
                    /\ result' = Wrap("authentication failed", LoginErr(l))
                    /\ UNCHANGED <<Token, attempt, lastErr>>
           ELSE /\ Token' = l.token
                /\ pc' = "send"
                /\ UNCHANGED <<attempt, lastErr, result>>
    /\ UNCHANGED <<retries, hasCreds, cancelled, calls, lastResp>>
    /\ UNCHANGED recVars
    /\ UNCHANGED concVars
    /\ UNCHANGED zoneVars

\* The Login of the re-authentication branch, then continue.
Relogin ==
    /\ pc = "relogin"
    /\ \E l \in LoginChoices :
        /\ trace' = Append(trace,
               Event("relogin", IF LoginErr(l) = NoErr THEN "ok" ELSE "fail"))
        /\ IF LoginErr(l) # NoErr
               THEN /\ pc' = "done"
                    /\ result' = Wrap("authentication failed", LoginErr(l))
                    /\ UNCHANGED <<Token, attempt, lastErr>>
           ELSE /\ Token' = l.token
                /\ EnterIteration(attempt + 1, lastErr)
    /\ UNCHANGED <<retries, hasCreds, cancelled, calls, lastResp>>
    /\ UNCHANGED recVars
    /\ UNCHANGED concVars
    /\ UNCHANGED zoneVars

\* The caller cancels the context of the call in flight.
Cancel ==
    /\ pc \in {"authLogin", "send", "backoff", "relogin"}
    /\ ~cancelled
    /\ cancelled' = TRUE
    /\ UNCHANGED <<retries, hasCreds, Token, pc, attempt, lastErr, result,
                   calls, trace, lastResp>>
    /\ UNCHANGED recVars
    /\ UNCHANGED concVars
    /\ UNCHANGED zoneVars

\* ----------------------------------------------------------------- strings
Colon == <<":">>

Dot == <<".">>

At == <<"@">>

Quote == <<"\"">>

DigitVal(c) ==
    CASE c = "0" -> 0 [] c = "1" -> 1 [] c = "2" -> 2 [] c = "3" -> 3
      [] c = "4" -> 4 [] c = "5" -> 5 [] c = "6" -> 6 [] c = "7" -> 7
      [] c = "8" -> 8 [] c = "9" -> 9

DigitChar(d) ==
    CASE d = 0 -> "0" [] d = 1 -> "1" [] d = 2 -> "2" [] d = 3 -> "3"
      [] d = 4 -> "4" [] d = 5 -> "5" [] d = 6 -> "6" [] d = 7 -> "7"
      [] d = 8 -> "8" [] d = 9 -> "9"

RECURSIVE DigitsVal(_)
DigitsVal(s) ==
    IF s = <<>> THEN 0
    ELSE 10 * DigitsVal(SubSeq(s, 1, Len(s) - 1)) + DigitVal(s[Len(s)])

\* strconv.ParseInt(s, 10, 64): an optional sign and one or more digits.
ParseInt(s) ==
    LET signed == s # <<>> /\ s[1] \in {"+", "-"}
        body == IF signed THEN Tail(s) ELSE s
    IN  IF body = <<>> \/ \E i \in DOMAIN body : body[i] \notin
              {"0", "1", "2", "3", "4", "5", "6", "7", "8", "9"}
            THEN [ok |-> FALSE, val |-> 0]
        ELSE [ok |-> TRUE,
              val |-> IF s[1] = "-" THEN 0 - DigitsVal(body)
                      ELSE DigitsVal(body)]

RECURSIVE FormatNat(_)
FormatNat(n) ==
    IF n < 10 THEN <<DigitChar(n)>>
    ELSE FormatNat(n \div 10) \o <<DigitChar(n % 10)>>

\* strconv.FormatInt(n, 10) and fmt's %d.
FormatInt(n) == IF n < 0 THEN <<"-">> \o FormatNat(0 - n) ELSE FormatNat(n)

\* strings.Split(s, sep) for a one-character separator.
RECURSIVE Split(_, _)
Split(s, sep) ==
    IF \A i \in DOMAIN s : s[i] # sep THEN <<s>>
    ELSE LET k == CHOOSE i \in DOMAIN s :
                      s[i] = sep /\ \A j \in 1 .. (i - 1) : s[j] # sep
         IN  <<SubSeq(s, 1, k - 1)>> \o Split(SubSeq(s, k + 1, Len(s)), sep)

\* strings.HasSuffix(s, suffix)
HasSuffix(s, suffix) ==
    /\ Len(suffix) <= Len(s)
    /\ SubSeq(s, Len(s) - Len(suffix) + 1, Len(s)) = suffix

\* strings.Contains(s, c) for a one-character c.
ContainsChar(s, c) == \E i \in DOMAIN s : s[i] = c

\* strings.Trim(s, "\""): every leading and trailing quote is removed.
RECURSIVE TrimQuotes(_)
TrimQuotes(s) ==
    IF s # <<>> /\ s[1] = "\"" THEN TrimQuotes(Tail(s))
    ELSE IF s # <<>> /\ s[Len(s)] = "\""
        THEN TrimQuotes(SubSeq(s, 1, Len(s) - 1))
    ELSE s

\* ------------------------------------------------------------ record model
\* An optional attribute: <<>> when null or unknown, <<v>> when set.
None == <<>>

Some(v) == <<v>>

TypeA == <<"A">>

TypeAAAA == <<"AAAA">>

TypeCNAME == <<"CNAME">>

TypeMX == <<"MX">>

TypeTXT == <<"TXT">>

TypePTR == <<"PTR">>

TypeNS == <<"NS">>

TypeSRV == <<"SRV">>

TypeFWD == <<"FWD">>

\* The instance is not in the engine's state.
Absent == [ID |-> <<>>]

\* No zone is tracked and none is held remotely.
ZoneParked ==
    /\ zoneState = Absent
    /\ zoneRemote = {}
    /\ zoneOps = <<>>

\* DNSRecordResourceModel: the attributes the record callbacks read and write.
Model(id, zone, name, type, ttl, data, pri, weight, port, note, proto, fwd) ==
    [ID |-> id, Zone |-> zone, Name |-> name, Type |-> type, TTL |-> ttl,
     Data |-> data, Priority |-> pri, Weight |-> weight, Port |-> port,
     Comments |-> note, Protocol |-> proto, Forwarder |-> fwd,
     ForwarderPriority |-> None]

\* Mutant: the name is sent as it was given.
FormatRecordNameBare(name, zoneName) == name

\* Mutant: the zone name is appended whatever the name ends with.
FormatRecordNameAlways(name, zoneName) ==
    IF name # At /\ name # zoneName /\ ~HasSuffix(name, Dot)
        THEN name \o Dot \o zoneName
    ELSE name

\* The name sent to the API for a record name of a zone.
FormatRecordName(name, zoneName) ==
    IF name # At /\ name # zoneName
       /\ ~HasSuffix(name, Dot)
       /\ ~HasSuffix(name, Dot \o zoneName)
       /\ ~HasSuffix(name, zoneName)
        THEN name \o Dot \o zoneName
    ELSE name

\* Mutant: the preference of an MX record keeps its name under "new".
TypeOptionsBarePreference(data, opType) ==
    LET new == opType = "new"
        P(bare, prefixed) == IF new THEN prefixed ELSE bare
        OptInt(key, v) == IF v # None THEN key :> FormatInt(v[1]) ELSE <<>>
    IN  CASE data.Type \in {TypeA, TypeAAAA} ->
                 P("ipAddress", "newIpAddress") :> data.Data
          [] data.Type = TypeCNAME -> P("cname", "newCname") :> data.Data
          [] data.Type = TypeMX ->
                 (P("exchange", "newExchange") :> data.Data)
                 @@ OptInt("preference", data.Priority)
          [] data.Type = TypeTXT ->
                 P("text", "newText") :> TrimQuotes(data.Data)
          [] data.Type = TypePTR -> P("ptrName", "newPtrName") :> data.Data
          [] data.Type = TypeNS ->
                 P("nameServer", "newNameServer") :> data.Data
          [] data.Type = TypeSRV ->
                 (P("target", "newTarget") :> data.Data)
                 @@ OptInt(P("priority", "newPriority"), data.Priority)
                 @@ OptInt(P("weight", "newWeight"), data.Weight)
                 @@ OptInt(P("port", "newPort"), data.Port)
          [] data.Type = TypeFWD ->
                 (P("protocol", "newProtocol") :>
                      (IF data.Protocol # None THEN data.Protocol[1]
                       ELSE <<"Udp">>))
                 @@ (P("forwarder", "newForwarder") :>
                      (IF data.Forwarder # None THEN data.Forwarder[1]
                       ELSE data.Data))
                 @@ OptInt("forwarderPriority", data.ForwarderPriority)
          [] OTHER -> <<>>

\* buildRecordOptions: the type-specific parameters of one operation.
TypeOptions(data, opType) ==
    LET new == opType = "new"
        P(bare, prefixed) == IF new THEN prefixed ELSE bare
        OptInt(key, v) == IF v # None THEN key :> FormatInt(v[1]) ELSE <<>>
    IN  CASE data.Type \in {TypeA, TypeAAAA} ->
                 P("ipAddress", "newIpAddress") :> data.Data
          [] data.Type = TypeCNAME -> P("cname", "newCname") :> data.Data
          [] data.Type = TypeMX ->
                 (P("exchange", "newExchange") :> data.Data)
                 @@ OptInt(P("preference", "newPreference"), data.Priority)
          [] data.Type = TypeTXT ->
                 P("text", "newText") :> TrimQuotes(data.Data)
          [] data.Type = TypePTR -> P("ptrName", "newPtrName") :> data.Data
          [] data.Type = TypeNS ->
                 P("nameServer", "newNameServer") :> data.Data
          [] data.Type = TypeSRV ->
                 (P("target", "newTarget") :> data.Data)
                 @@ OptInt(P("priority", "newPriority"), data.Priority)
                 @@ OptInt(P("weight", "newWeight"), data.Weight)
                 @@ OptInt(P("port", "newPort"), data.Port)
          [] data.Type = TypeFWD ->
                 (P("protocol", "newProtocol") :>
                      (IF data.Protocol # None THEN data.Protocol[1]
                       ELSE <<"Udp">>))
                 @@ (P("forwarder", "newForwarder") :>
                      (IF data.Forwarder # None THEN data.Forwarder[1]
                       ELSE data.Data))
                 @@ OptInt("forwarderPriority", data.ForwarderPriority)
          [] OTHER -> <<>>

\* Mutant: the comments are attached whatever the operation is.
BuildRecordOptionsWithComments(data, opType) ==
    TypeOptions(data, opType)
    @@ (IF data.Comments # None THEN "comments" :> data.Comments[1]
        ELSE <<>>)

\* buildRecordOptions: the parameters, with the comments of create and new.
BuildRecordOptions(data, opType) ==
    TypeOptions(data, opType)
    @@ (IF opType \in {"create", "new"} /\ data.Comments # None
            THEN "comments" :> data.Comments[1]
        ELSE <<>>)

\* validateRecord: the error (or nil) for a configuration.
ValidateRecord(data) ==
    CASE data.Type = TypeA /\ ~ContainsChar(data.Data, ".") ->
             <<"invalid IPv4 address format for A record">>
      [] data.Type = TypeAAAA /\ ~ContainsChar(data.Data, ":") ->
             <<"invalid IPv6 address format for AAAA record">>
      [] data.Type = TypeMX /\ data.Priority = None ->
             <<"priority is required for MX records">>
      [] data.Type = TypeSRV /\ data.Priority = None ->
             <<"priority is required for SRV records">>
      [] data.Type = TypeSRV /\ data.Priority # None /\ data.Weight = None ->
             <<"weight is required for SRV records">>
      [] data.Type = TypeSRV /\ data.Priority # None /\ data.Weight # None
            /\ data.Port = None ->
             <<"port is required for SRV records">>
      [] data.Type = TypeFWD /\ data.Forwarder = None /\ data.Data = <<>> ->
             <<"forwarder address is required for FWD records">>
      [] data.Type = TypeFWD /\ ~(data.Forwarder = None /\ data.Data = <<>>)
            /\ data.Protocol # None
            /\ data.Protocol[1] \notin
                   {<<"Udp">>, <<"Tcp">>, <<"Tls">>, <<"Https">>, <<"Quic">>} ->
             <<"invalid protocol for FWD record">>
      [] OTHER -> NoErr

\* Mutant: the priority is written for MX and SRV records only.
RecordIDTypedPriority(data) ==
    data.Zone \o Colon \o data.Name \o Colon \o data.Type
    \o (IF data.Priority # None /\ data.Type \in {TypeMX, TypeSRV}
            THEN Colon \o FormatInt(data.Priority[1]) ELSE <<>>)
    \o (IF data.Type \in {TypeTXT, TypeFWD} THEN <<>>
        ELSE IF data.Data # <<>> THEN Colon \o data.Data ELSE <<>>)

\* Mutant: the data is written for FWD records too.
RecordIDWithForwarder(data) ==
    data.Zone \o Colon \o data.Name \o Colon \o data.Type
    \o (IF data.Priority # None
            THEN Colon \o FormatInt(data.Priority[1]) ELSE <<>>)
    \o (IF data.Type = TypeTXT THEN <<>>
        ELSE IF data.Data # <<>> THEN Colon \o data.Data ELSE <<>>)

\* Mutant: the data is written for every type.
RecordIDWithPayload(data) ==
    data.Zone \o Colon \o data.Name \o Colon \o data.Type
    \o (IF data.Priority # None
            THEN Colon \o FormatInt(data.Priority[1]) ELSE <<>>)
    \o (IF data.Data # <<>> THEN Colon \o data.Data ELSE <<>>)

\* Create: the identity zone:name:type[:priority][:data] of a record.
RecordID(data) ==
    data.Zone \o Colon \o data.Name \o Colon \o data.Type
    \o (IF data.Priority # None
            THEN Colon \o FormatInt(data.Priority[1]) ELSE <<>>)
    \o (IF data.Type \in {TypeTXT, TypeFWD} THEN <<>>
        ELSE IF data.Data # <<>> THEN Colon \o data.Data ELSE <<>>)

\* Mutant: a 4th part is always the data.
DecodeIDDataFirst(id) ==
    LET idParts == Split(id, ":")
    IN  IF Len(idParts) < 3
            THEN [ok |-> FALSE, zone |-> <<>>, name |-> <<>>, type |-> <<>>,
                  priority |-> 0, data |-> <<>>]
        ELSE [ok |-> TRUE, zone |-> idParts[1], name |-> idParts[2],
              type |-> idParts[3], priority |-> 0,
              data |-> IF Len(idParts) > 4 THEN idParts[5]
                       ELSE IF Len(idParts) > 3 THEN idParts[4]
                       ELSE <<>>]

\* Read: the fields decoded from an identity.
DecodeID(id) ==
    LET idParts == Split(id, ":")
        p == IF Len(idParts) > 3 THEN ParseInt(idParts[4])
             ELSE [ok |-> FALSE, val |-> 0]
    IN  IF Len(idParts) < 3
            THEN [ok |-> FALSE, zone |-> <<>>, name |-> <<>>, type |-> <<>>,
                  priority |-> 0, data |-> <<>>]
        ELSE [ok |-> TRUE, zone |-> idParts[1], name |-> idParts[2],
              type |-> idParts[3],
              priority |-> IF p.ok THEN p.val ELSE 0,
              data |-> IF Len(idParts) > 4 THEN idParts[5]
                       ELSE IF Len(idParts) > 3 /\ ~p.ok THEN idParts[4]
                       ELSE <<>>]

\* ------------------------------------------------------------ declarations
ZoneName == <<"example", ".", "com">>

IPv4Example == <<"1", "9", "2", ".", "1", "6", "8", ".", "1", ".", "1", "0", "0">>

IPv6Example == <<"2", "0", "0", "1", ":", "db", "8", ":", ":", "1">>

HostWWW == <<"www", ".", "example", ".", "com">>

HostMail == <<"mail", ".", "example", ".", "com">>

TextSPF == <<"v=spf1 -all">>

ForwarderAddress == <<"1", ".", "1", ".", "1", ".", "1">>

ForwarderOther == <<"8", ".", "8", ".", "8", ".", "8">>

Plan(name, type, data, priority, weight, port, protocol, forwarder) ==
    Model(<<>>, ZoneName, name, type, 300, data, priority, weight, port, None,
          protocol, forwarder)

\* The configurations the engine may hand to Create.
Plans ==
    {Plan(n, TypeA, IPv4Example, None, None, None, None, None) :
         n \in {<<"www">>, HostWWW}}
    \cup {Plan(<<"www">>, TypeA, IPv4Example, Some(5), None, None, None, None)}
    \cup {[Plan(<<"www">>, TypeA, IPv4Example, None, None, None, None, None)
              EXCEPT !.Comments = Some(<<"note">>)]}
    \cup {Plan(<<"www">>, TypeAAAA, IPv6Example, None, None, None, None, None)}
    \cup {Plan(<<"blog">>, TypeCNAME, HostWWW, None, None, None, None, None)}
    \cup {Plan(At, TypeMX, HostMail, p, None, None, None, None) :
              p \in {None, Some(0), Some(10), Some(20)}}
    \cup {Plan(<<"www">>, TypeTXT, t, None, None, None, None, None) :
              t \in {TextSPF, <<"site-verification=abc">>}}
    \cup {Plan(<<"1", "0", "0">>, TypePTR, HostWWW, None, None, None, None, None)}
    \cup {Plan(At, TypeNS, <<"ns", ".", "example", ".", "com">>,
              None, None, None, None, None)}
    \cup {Plan(<<"_sip">>, TypeSRV, HostWWW, Some(10), Some(5), p, None, None) :
              p \in {None, Some(5060)}}
    \cup {Plan(<<"fwd">>, TypeFWD, ForwarderAddress, None, None, None, pr, None) :
              pr \in {None, Some(<<"Tcp">>)}}
    \cup {Plan(<<"fwd">>, TypeFWD, ForwarderOther, None, None, None,
               Some(<<"Https">>), f) : f \in {None, Some(ForwarderOther)}}
    \cup {Plan(<<"fwd">>, TypeFWD, <<>>, None, None, None, None, None)}
    \cup {[Plan(<<"fwd">>, TypeFWD, ForwarderAddress, None, None, None, None,
                None) EXCEPT !.ForwarderPriority = Some(1)]}

\* ------------------------------------------------------------- remote zone
\* client.DNSRecordData with Go's zero values.
EmptyRData ==
    [IPAddress |-> <<>>, CNAME |-> <<>>, Exchange |-> <<>>, Preference |-> 0,
     Text |-> <<>>, PTRName |-> <<>>, NameServer |-> <<>>, Priority |-> 0,
     Weight |-> 0, Port |-> 0, Target |-> <<>>, Protocol |-> <<>>,
     Forwarder |-> <<>>, ForwarderPriority |-> 0]

\* client.DNSRecord
RemoteRecord(name, type, ttl, comments, rdata) ==
    [Name |-> name, Type |-> type, TTL |-> ttl, Comments |-> comments,
     RData |-> rdata]

Param(o, key) == IF key \in DOMAIN o THEN o[key] ELSE <<>>

IntParam(o, key) == ParseInt(Param(o, key)).val

\* The record data the remote API builds from the request parameters.
RemoteRData(type, o) ==
    CASE type \in {TypeA, TypeAAAA} ->
             [EmptyRData EXCEPT !.IPAddress = Param(o, "ipAddress")]
      [] type = TypeCNAME -> [EmptyRData EXCEPT !.CNAME = Param(o, "cname")]
      [] type = TypeMX ->
             [EmptyRData EXCEPT !.Exchange = Param(o, "exchange"),
                                !.Preference = IntParam(o, "preference")]
      [] type = TypeTXT -> [EmptyRData EXCEPT !.Text = Param(o, "text")]
      [] type = TypePTR -> [EmptyRData EXCEPT !.PTRName = Param(o, "ptrName")]
      [] type = TypeNS ->
             [EmptyRData EXCEPT !.NameServer = Param(o, "nameServer")]
      [] type = TypeSRV ->
             [EmptyRData EXCEPT !.Target = Param(o, "target"),
                                !.Priority = IntParam(o, "priority"),
                                !.Weight = IntParam(o, "weight"),
                                !.Port = IntParam(o, "port")]
      [] type = TypeFWD ->
             [EmptyRData EXCEPT !.Protocol = Param(o, "protocol"),
                                !.Forwarder = Param(o, "forwarder"),
                                !.ForwarderPriority =
                                    IntParam(o, "forwarderPriority")]
      [] OTHER -> EmptyRData

\* The remote API identifies a record by its record data; the priority of a
\* forwarder is a setting of the record and no part of what identifies it.
Identifies(rdata, type, o) ==
    [rdata EXCEPT !.ForwarderPriority = 0]
        = [RemoteRData(type, o) EXCEPT !.ForwarderPriority = 0]

\* The owner name the remote zone files a record under.
RemoteName(zone, domain) ==
    IF domain = At THEN zone
    ELSE IF HasSuffix(domain, Dot) THEN SubSeq(domain, 1, Len(domain) - 1)
    ELSE domain

InsertAt(list, front, x) == IF front THEN <<x>> \o list ELSE Append(list, x)

RemoveAt(list, i) == SubSeq(list, 1, i - 1) \o SubSeq(list, i + 1, Len(list))

\* zones/records/add: the answer and the records afterwards.
RemoteAdd(records, zone, domain, type, ttl, o, front) ==
    LET rec == RemoteRecord(RemoteName(zone, domain), type, ttl,
                            Param(o, "comments"),
                            RemoteRData(type, o))
    IN  IF ~remoteZone \/ zone # ZoneName
            THEN [err |-> <<"API error", "No such zone was found">>,
                  record |-> rec, records |-> records]
        ELSE IF \E i \in DOMAIN records :
                    /\ records[i].Name = rec.Name
                    /\ records[i].Type = rec.Type
                    /\ Identifies(records[i].RData, type, o)
            THEN [err |-> <<"API error", "Record already exists">>,
                  record |-> rec, records |-> records]
        ELSE [err |-> NoErr, record |-> rec,
              records |-> InsertAt(records, front, rec)]

\* The text of a TXT record as the remote API returns it.
Returned(rec) ==
    IF rec.Type = TypeTXT /\ remoteQuotes
        THEN [rec EXCEPT !.RData.Text = Quote \o @ \o Quote]
    ELSE rec

\* zones/records/get: the answer and the records at the domain.
RemoteGet(zone, domain) ==
    IF ~remoteZone \/ zone # ZoneName
        THEN [err |-> <<"API error", "No such zone was found">>,
              records |-> <<>>]
    ELSE LET at == SelectSeq(remoteRecords,
                       LAMBDA r : r.Name = RemoteName(zone, domain))
         IN  [err |-> NoErr,
              records |-> [i \in DOMAIN at |-> Returned(at[i])]]

\* zones/records/delete: the answer and the records afterwards.  Whether a
\* request that names no existing record is answered with an error is the
\* remote side's choice (errorIfMissing).
RemoteDelete(records, zone, domain, type, o, errorIfMissing) ==
    LET hits == {i \in DOMAIN records :
                    /\ records[i].Name = RemoteName(zone, domain)
                    /\ records[i].Type = type
                    /\ Identifies(records[i].RData, type, o)}
    IN  IF ~remoteZone \/ zone # ZoneName
            THEN [err |-> <<"API error", "No such zone was found">>,
                  records |-> records]
        ELSE IF hits = {}
            THEN [err |-> IF errorIfMissing
                              THEN <<"API error", "No such record exists">>
                          ELSE NoErr,
                  records |-> records]
        ELSE [err |-> NoErr,
              records |-> RemoveAt(records,
                              CHOOSE i \in hits : \A j \in hits : i <= j)]

\* Mutant: the client call reports its context and drops the remote answer.
CallErrContextOnly(context, net, answerErr) ==
    IF ~net THEN Wrap(context, <<"request failed", "connection error">>)
    ELSE IF answerErr # NoErr THEN <<context>>
    ELSE NoErr

\* The error of a client call: the transport's when the request does not get
\* through, else the one of the remote answer.
CallErr(context, net, answerErr) ==
    IF ~net THEN Wrap(context, <<"request failed", "connection error">>)
    ELSE IF answerErr # NoErr THEN Wrap(context, answerErr)
    ELSE NoErr

\* --------------------------------------------------------- record callbacks
MaxInt32 == 2147483647

MinInt32 == 0 - 2147483647 - 1

OrZero(v) == IF v = None THEN Some(0) ELSE v

\* Create: the state saved after a successful add.
CreatedState(plan, added) ==
    [plan EXCEPT
        !.ID = RecordID(plan),
        !.TTL = IF added.TTL > 0 THEN added.TTL ELSE @,
        !.Priority = OrZero(@),
        !.Weight = OrZero(@),
        !.Port = OrZero(@),
        !.ForwarderPriority = OrZero(@),
        !.Protocol = IF plan.Type = TypeFWD /\ @ = None
                         THEN Some(added.RData.Protocol) ELSE @,
        !.Forwarder = IF plan.Type = TypeFWD /\ @ = None
                          THEN Some(added.RData.Forwarder) ELSE @]

\* Mutant: the text of a TXT record is compared as it is returned.
MatchesRecordRawText(record, d) ==
    /\ record.Type = d.type
    /\ CASE d.type = TypeMX ->
                ~(\/ /\ d.priority > 0
                     /\ \/ d.priority < MinInt32
                        \/ d.priority > MaxInt32
                        \/ record.RData.Preference # d.priority
                  \/ d.data # <<>> /\ record.RData.Exchange # d.data)
         [] d.type = TypeFWD ->
                ~(d.data # <<>> /\ record.RData.Forwarder # d.data)
         [] d.type \in {TypeA, TypeAAAA} ->
                ~(d.data # <<>> /\ record.RData.IPAddress # d.data)
         [] d.type = TypeCNAME ->
                ~(d.data # <<>> /\ record.RData.CNAME # d.data)
         [] d.type = TypeTXT ->
                ~(d.data # <<>> /\ record.RData.Text # d.data)
         [] OTHER -> TRUE

\* Read: a listed record passes the constraints decoded from the identity.
MatchesRecord(record, d) ==
    /\ record.Type = d.type
    /\ CASE d.type = TypeMX ->
                ~(\/ /\ d.priority > 0
                     /\ \/ d.priority < MinInt32
                        \/ d.priority > MaxInt32
                        \/ record.RData.Preference # d.priority
                  \/ d.data # <<>> /\ record.RData.Exchange # d.data)
         [] d.type = TypeFWD ->
                ~(d.data # <<>> /\ record.RData.Forwarder # d.data)
         [] d.type \in {TypeA, TypeAAAA} ->
                ~(d.data # <<>> /\ record.RData.IPAddress # d.data)
         [] d.type = TypeCNAME ->
                ~(d.data # <<>> /\ record.RData.CNAME # d.data)
         [] d.type = TypeTXT ->
                ~(/\ d.data # <<>>
                  /\ record.RData.Text # d.data
                  /\ TrimQuotes(record.RData.Text) # TrimQuotes(d.data))
         [] OTHER -> TRUE

\* Mutant: the last passing record is taken.
FindRecordLast(records, d) ==
    IF \E i \in DOMAIN records : MatchesRecord(records[i], d)
        THEN CHOOSE i \in DOMAIN records :
                 /\ MatchesRecord(records[i], d)
                 /\ \A j \in DOMAIN records :
                        MatchesRecord(records[j], d) => j <= i
    ELSE 0

\* Read: the index of the first listed record that passes, 0 when none does.
FindRecord(records, d) ==
    IF \E i \in DOMAIN records : MatchesRecord(records[i], d)
        THEN CHOOSE i \in DOMAIN records :
                 /\ MatchesRecord(records[i], d)
                 /\ \A j \in 1 .. (i - 1) : ~MatchesRecord(records[j], d)
    ELSE 0

\* Read: the data attribute taken from a record of the given type.
DataOf(type, record, old) ==
    CASE type \in {TypeA, TypeAAAA} -> record.RData.IPAddress
      [] type = TypeCNAME -> record.RData.CNAME
      [] type = TypeMX -> record.RData.Exchange
      [] type = TypeTXT -> TrimQuotes(record.RData.Text)
      [] type = TypePTR -> record.RData.PTRName
      [] type = TypeNS -> record.RData.NameServer
      [] type = TypeSRV -> record.RData.Target
      [] type = TypeFWD -> record.RData.Forwarder
      [] OTHER -> old

\* Read: the state saved when the listed record matched.
ReadState(data, record, d) ==
    [data EXCEPT
        !.Zone = d.zone,
        !.Name = d.name,
        !.Type = d.type,
        !.TTL = IF record.TTL > 0 THEN record.TTL ELSE @,
        !.Data = DataOf(d.type, record, @),
        !.Priority = IF d.type = TypeMX THEN Some(record.RData.Preference)
                     ELSE IF d.type = TypeSRV THEN Some(record.RData.Priority)
                     ELSE OrZero(@),
        !.Weight = IF d.type = TypeSRV THEN Some(record.RData.Weight)
                   ELSE OrZero(@),
        !.Port = IF d.type = TypeSRV THEN Some(record.RData.Port)
                 ELSE OrZero(@),
        !.Protocol = IF d.type = TypeFWD THEN Some(record.RData.Protocol)
                     ELSE @,
        !.Forwarder = IF d.type = TypeFWD THEN Some(record.RData.Forwarder)
                      ELSE @,
        !.ForwarderPriority =
            IF d.type = TypeFWD THEN Some(record.RData.ForwarderPriority)
            ELSE OrZero(@)]

\* The remote zone holds the record that the instance stands for.
RemoteHolds(data) ==
    /\ remoteZone
    /\ \E i \in DOMAIN remoteRecords :
        /\ remoteRecords[i].Name
               = RemoteName(data.Zone, FormatRecordName(data.Name, data.Zone))
        /\ remoteRecords[i].Type = data.Type
        /\ Identifies(remoteRecords[i].RData, data.Type,
                      BuildRecordOptions(data, "delete"))

\* doRequest sends a request again when no response to it arrives.  The
\* response to an attempt that the remote API applied may be the one that
\* is lost: the remote zone then answers the retry in the state the first
\* attempt left.  Counted with the changes that others make.
LostResponse(net, firstErr) ==
    /\ net
    /\ firstErr = NoErr
    /\ changes < MaxChanges
    /\ Len(ops) + changes + 1 < MaxOps

\* A finished callback: whether its request got through, whether the
\* response to an attempt that the remote API had applied was lost, whether
\* the remote zone held the record when it began, whether it reported no
\* error, whether validateRecord accepts the data it was handed, whether it
\* made a request to the remote API, and for a request the name and zone
\* attributes of the data it was handed and the domain parameter it sent.
Done(op, net, lost, held, err, valid, sent, data, domain) ==
    [op |-> op, net |-> net, lost |-> lost, held |-> held, ok |-> err = NoErr,
     valid |-> valid, sent |-> sent,
     name |-> IF sent THEN data.Name ELSE <<>>,
     zone |-> IF sent THEN data.Zone ELSE <<>>,
     domain |-> IF sent THEN domain ELSE <<>>]

\* Create
Create ==
    /\ tracked = Absent
    /\ Len(ops) + changes < MaxOps
    /\ \E plan \in Plans, net \in BOOLEAN, lost \in BOOLEAN,
          front \in BOOLEAN :
        LET options == BuildRecordOptions(plan, "create")
            invalid == ValidateRecord(plan)
            recordName == FormatRecordName(plan.Name, plan.Zone)
            first == RemoteAdd(remoteRecords, plan.Zone, recordName,
                               plan.Type, plan.TTL, options, front)
            answer == IF lost
                          THEN RemoteAdd(first.records, plan.Zone, recordName,
                                         plan.Type, plan.TTL, options, front)
                      ELSE first
            err == CallErr("failed to add DNS record", net, answer.err)
        IN  /\ lost => /\ LostResponse(net, first.err)
                       /\ invalid = NoErr
                       /\ Len(remoteRecords) < MaxRemoteRecords
            /\ changes' = IF lost THEN changes + 1 ELSE changes
            /\ prior' = Absent
            /\ IF invalid # NoErr
                   THEN /\ diag' = Wrap("Invalid DNS record configuration",
                                        invalid)
                        /\ UNCHANGED <<tracked, declared, remoteRecords>>
               ELSE IF err # NoErr
                   THEN /\ diag' = Wrap("Error creating DNS record", err)
                        /\ remoteRecords' = IF lost THEN first.records
                                            ELSE remoteRecords
                        /\ UNCHANGED <<tracked, declared>>
               ELSE /\ Len(remoteRecords) < MaxRemoteRecords
                    /\ diag' = NoErr
                    /\ tracked' = CreatedState(plan, answer.record)
                    /\ declared' = plan
                    /\ remoteRecords' = answer.records
            /\ ops' = Append(ops, Done("Create", net, lost, RemoteHolds(plan),
                                       diag', invalid = NoErr, invalid = NoErr,
                                       plan, recordName))
    /\ UNCHANGED <<lastList, remoteZone, remoteQuotes>>
    /\ UNCHANGED imported
    /\ UNCHANGED clientVars
    /\ UNCHANGED concVars
    /\ UNCHANGED zoneVars

\* Read
Read ==
    /\ tracked # Absent
    /\ Len(ops) + changes < MaxOps
    /\ \E net \in BOOLEAN :
        LET d == DecodeID(tracked.ID)
            recordName == FormatRecordName(d.name, d.zone)
            answer == RemoteGet(d.zone, recordName)
            err == CallErr("failed to get DNS records", net, answer.err)
            found == FindRecord(answer.records, d)
        IN  /\ prior' = tracked
            /\ IF ~d.ok
                   THEN /\ diag' = <<"Invalid ID format">>
                        /\ UNCHANGED <<tracked, lastList>>
               ELSE IF err # NoErr
                   THEN /\ diag' = Wrap("Error reading DNS record", err)
                        /\ UNCHANGED <<tracked, lastList>>
               ELSE /\ diag' = NoErr
                    /\ lastList' = answer.records
                    /\ tracked' = IF found = 0 THEN Absent
                                  ELSE ReadState(tracked,
                                                 answer.records[found], d)
            /\ ops' = Append(ops, Done("Read", net, FALSE, RemoteHolds(tracked),
                                       diag', TRUE, d.ok, tracked, recordName))
    /\ UNCHANGED <<declared, remoteZone, remoteRecords, remoteQuotes, changes>>
    /\ UNCHANGED imported
    /\ UNCHANGED clientVars
    /\ UNCHANGED concVars
    /\ UNCHANGED zoneVars

\* The plan the engine hands to Update for a declaration: the identity and
\* the unset priority, weight, port and forwarder priority are those of the
\* prior state (UseStateForUnknown).
PlannedUpdate(q, state) ==
    [q EXCEPT !.ID = state.ID,
              !.Priority = IF @ = None THEN state.Priority ELSE @,
              !.Weight = IF @ = None THEN state.Weight ELSE @,
              !.Port = IF @ = None THEN state.Port ELSE @,
              !.ForwarderPriority =
                  IF @ = None THEN state.ForwarderPriority ELSE @]

\* Mutant: the merge keeps the current-side value of a parameter that both
\* sides name.
UpdateOptionsCurrentWins(old, plan) ==
    ("ttl" :> FormatInt(plan.TTL))
    @@ (IF plan.Comments # None THEN "comments" :> plan.Comments[1]
        ELSE <<>>)
    @@ BuildRecordOptions(old, "current")
    @@ BuildRecordOptions(plan, "new")

\* Update: the parameters of the update request.
UpdateOptions(old, plan) ==
    ("ttl" :> FormatInt(plan.TTL))
    @@ (IF plan.Comments # None THEN "comments" :> plan.Comments[1]
        ELSE <<>>)
    @@ BuildRecordOptions(plan, "new")
    @@ BuildRecordOptions(old, "current")

\* The parameter that carries the new value of a current-side parameter.
NewKey(key) ==
    CASE key = "ipAddress" -> "newIpAddress"
      [] key = "cname" -> "newCname"
      [] key = "exchange" -> "newExchange"
      [] key = "preference" -> "newPreference"
      [] key = "text" -> "newText"
      [] key = "ptrName" -> "newPtrName"
      [] key = "nameServer" -> "newNameServer"
      [] key = "target" -> "newTarget"
      [] key = "priority" -> "newPriority"
      [] key = "weight" -> "newWeight"
      [] key = "port" -> "newPort"
      [] key = "protocol" -> "newProtocol"
      [] key = "forwarder" -> "newForwarder"
      [] OTHER -> key

\* The request parameters with every new value in the place of the current
\* one.
Renewed(o) ==
    [key \in DOMAIN o |-> IF NewKey(key) \in DOMAIN o THEN o[NewKey(key)]
                          ELSE o[key]]

\* zones/records/update: the answer, the updated record and the records
\* afterwards.  The record is found by its current values; whether a request
\* that names no existing record is answered with an error is the remote
\* side's choice (errorIfMissing).
RemoteUpdate(records, zone, domain, type, o, errorIfMissing) ==
    LET hits == {i \in DOMAIN records :
                    /\ records[i].Name = RemoteName(zone, domain)
                    /\ records[i].Type = type
                    /\ Identifies(records[i].RData, type, o)}
        rec == RemoteRecord(RemoteName(zone, domain), type,
                            IntParam(o, "ttl"), Param(o, "comments"),
                            RemoteRData(type, Renewed(o)))
    IN  IF ~remoteZone \/ zone # ZoneName
            THEN [err |-> <<"API error", "No such zone was found">>,
                  record |-> rec, records |-> records]
        ELSE IF hits = {}
            THEN [err |-> IF errorIfMissing
                              THEN <<"API error", "No such record exists">>
                          ELSE NoErr,
                  record |-> rec, records |-> records]
        ELSE [err |-> NoErr, record |-> rec,
              records |-> [records EXCEPT
                              ![CHOOSE i \in hits : \A j \in hits : i <= j]
                                  = rec]]

\* Update: the state saved after a successful update request.
UpdatedState(plan, updated) ==
    [plan EXCEPT
        !.TTL = IF updated.TTL > 0 THEN updated.TTL ELSE @,
        !.Priority = OrZero(@),
        !.Weight = OrZero(@),
        !.Port = OrZero(@),
        !.ForwarderPriority = OrZero(@),
        !.Protocol = IF plan.Type = TypeFWD /\ @ = None
                         THEN Some(updated.RData.Protocol) ELSE @,
        !.Forwarder = IF plan.Type = TypeFWD /\ @ = None
                          THEN Some(updated.RData.Forwarder) ELSE @]

\* Update
Update ==
    /\ tracked # Absent
    /\ Len(ops) + changes < MaxOps
    /\ \E q \in Plans, net \in BOOLEAN, lost \in BOOLEAN,
          errorIfMissing \in BOOLEAN :
        LET plan == PlannedUpdate(q, tracked)
            options == UpdateOptions(tracked, plan)
            recordName == FormatRecordName(plan.Name, plan.Zone)
            first == RemoteUpdate(remoteRecords, plan.Zone, recordName,
                                  plan.Type, options, errorIfMissing)
            answer == IF lost
                          THEN RemoteUpdate(first.records, plan.Zone,
                                            recordName, plan.Type, options,
                                            errorIfMissing)
                      ELSE first
            err == CallErr("failed to update DNS record", net, answer.err)
        IN  /\ q.Zone = tracked.Zone
            /\ q.Name = tracked.Name
            /\ q.Type = tracked.Type
            /\ lost => /\ LostResponse(net, first.err)
                       /\ first.records # remoteRecords
            /\ changes' = IF lost THEN changes + 1 ELSE changes
            /\ prior' = tracked
            /\ IF err # NoErr
                   THEN /\ diag' = Wrap("Error updating DNS record", err)
                        /\ remoteRecords' = IF lost THEN first.records
                                            ELSE remoteRecords
                        /\ UNCHANGED <<tracked, declared>>
               ELSE /\ diag' = NoErr
                    /\ tracked' = UpdatedState(plan, answer.record)
                    /\ declared' = q
                    /\ remoteRecords' = answer.records
            /\ ops' = Append(ops,
                            Done("Update", net, lost, RemoteHolds(tracked),
                                 diag', ValidateRecord(plan) = NoErr, TRUE,
                                 plan, recordName))
    /\ UNCHANGED <<lastList, remoteZone, remoteQuotes>>
    /\ UNCHANGED imported
    /\ UNCHANGED clientVars
    /\ UNCHANGED concVars
    /\ UNCHANGED zoneVars

\* Mutant: the instance is removed from the state before the answer of the
\* delete request is looked at.
DeleteRemovesFirst ==
    /\ tracked # Absent
    /\ Len(ops) + changes < MaxOps
    /\ \E net \in BOOLEAN, lost \in BOOLEAN, errorIfMissing \in BOOLEAN :
        LET options == BuildRecordOptions(tracked, "delete")
            recordName == FormatRecordName(tracked.Name, tracked.Zone)
            first == RemoteDelete(remoteRecords, tracked.Zone, recordName,
                                  tracked.Type, options, errorIfMissing)
            answer == IF lost
                          THEN RemoteDelete(first.records, tracked.Zone,
                                            recordName, tracked.Type, options,
                                            errorIfMissing)
                      ELSE first
            err == CallErr("failed to delete DNS record", net, answer.err)
        IN  /\ lost => /\ LostResponse(net, first.err)
                       /\ first.records # remoteRecords
            /\ changes' = IF lost THEN changes + 1 ELSE changes
            /\ prior' = tracked
            /\ IF err # NoErr
                   THEN /\ diag' = Wrap("Error deleting DNS record", err)
                        /\ tracked' = Absent
                        /\ remoteRecords' = IF lost THEN first.records
                                            ELSE remoteRecords
               ELSE /\ diag' = NoErr
                    /\ tracked' = Absent
                    /\ remoteRecords' = answer.records
            /\ ops' = Append(ops,
                            Done("Delete", net, lost, RemoteHolds(tracked),
                                 diag', TRUE, TRUE, tracked, recordName))
    /\ UNCHANGED <<declared, lastList, remoteZone, remoteQuotes>>
    /\ UNCHANGED imported
    /\ UNCHANGED clientVars
    /\ UNCHANGED concVars
    /\ UNCHANGED zoneVars

\* Delete
Delete ==
    /\ tracked # Absent
    /\ Len(ops) + changes < MaxOps
    /\ \E net \in BOOLEAN, lost \in BOOLEAN, errorIfMissing \in BOOLEAN :
        LET options == BuildRecordOptions(tracked, "delete")
            recordName == FormatRecordName(tracked.Name, tracked.Zone)
            first == RemoteDelete(remoteRecords, tracked.Zone, recordName,
                                  tracked.Type, options, errorIfMissing)
            answer == IF lost
                          THEN RemoteDelete(first.records, tracked.Zone,
                                            recordName, tracked.Type, options,
                                            errorIfMissing)
                      ELSE first
            err == CallErr("failed to delete DNS record", net, answer.err)
        IN  /\ lost => /\ LostResponse(net, first.err)
                       /\ first.records # remoteRecords
            /\ changes' = IF lost THEN changes + 1 ELSE changes
            /\ prior' = tracked
            /\ IF err # NoErr
                   THEN /\ diag' = Wrap("Error deleting DNS record", err)
                        /\ remoteRecords' = IF lost THEN first.records
                                            ELSE remoteRecords
                        /\ UNCHANGED tracked
               ELSE /\ diag' = NoErr
                    /\ tracked' = Absent
                    /\ remoteRecords' = answer.records
            /\ ops' = Append(ops,
                            Done("Delete", net, lost, RemoteHolds(tracked),
                                 diag', TRUE, TRUE, tracked, recordName))
    /\ UNCHANGED <<declared, lastList, remoteZone, remoteQuotes>>
    /\ UNCHANGED imported
    /\ UNCHANGED clientVars
    /\ UNCHANGED concVars
    /\ UNCHANGED zoneVars

\* The identities handed to ImportState.
ImportIDs ==
    {<<>>,
     ZoneName,
     ZoneName \o Colon \o <<"www">>,
     ZoneName \o Colon \o <<"www">> \o Colon \o TypeA,
     ZoneName \o Colon \o <<"www">> \o Colon \o TypeA \o Colon \o IPv4Example,
     ZoneName \o Colon \o At \o Colon \o TypeMX \o Colon \o <<"1", "0">>,
     ZoneName \o Colon \o At \o Colon \o TypeMX \o Colon \o <<"1", "0">>
         \o Colon \o HostMail,
     ZoneName \o Colon \o <<"www">> \o Colon \o TypeA \o Colon \o <<"primary">>
         \o Colon \o IPv4Example,
     ZoneName \o Colon \o <<"www">> \o Colon \o TypeAAAA \o Colon \o IPv6Example,
     ZoneName \o Colon \o HostWWW \o Dot \o Colon \o TypeA,
     ZoneName \o Colon \o ZoneName \o Colon \o TypeNS,
     <<"com">> \o Colon \o HostWWW \o Colon \o TypeA,
     <<"org">> \o Colon \o <<"www">> \o Colon \o TypeA,
     ZoneName \o Colon \o <<"www">> \o Colon \o TypeTXT \o Colon \o TextSPF}

\* Mutant: the computed priority, weight and port are seeded with their
\* default 0, as Create does.
ImportedStateWithDefaults(id) ==
    LET idParts == Split(id, ":")
        p == IF Len(idParts) > 3 THEN ParseInt(idParts[4])
             ELSE [ok |-> FALSE, val |-> 0]
    IN  Model(id, idParts[1], idParts[2], idParts[3], 0,
              IF Len(idParts) > 4 THEN idParts[5]
              ELSE IF Len(idParts) > 3 /\ ~p.ok THEN idParts[4]
              ELSE <<>>,
              IF p.ok THEN Some(p.val) ELSE Some(0),
              Some(0), Some(0), None, None, None)

\* ImportState: the attributes set from the identity; the others are null
\* (a null ttl reads as 0, a null string as "").
ImportedState(id) ==
    LET idParts == Split(id, ":")
        p == IF Len(idParts) > 3 THEN ParseInt(idParts[4])
             ELSE [ok |-> FALSE, val |-> 0]
    IN  Model(id, idParts[1], idParts[2], idParts[3], 0,
              IF Len(idParts) > 4 THEN idParts[5]
              ELSE IF Len(idParts) > 3 /\ ~p.ok THEN idParts[4]
              ELSE <<>>,
              IF p.ok THEN Some(p.val) ELSE None,
              None, None, None, None, None)

\* ImportState
ImportState ==
    /\ tracked = Absent
    /\ Len(ops) + changes < MaxOps
    /\ \E id \in ImportIDs :
        /\ imported' = id
        /\ prior' = Absent
        /\ IF Len(Split(id, ":")) < 3
               THEN /\ diag' = <<"Invalid import ID">>
                    /\ UNCHANGED tracked
           ELSE /\ diag' = NoErr
                /\ tracked' = ImportedState(id)
        /\ ops' = Append(ops, Done("ImportState", TRUE, FALSE, FALSE, diag',
                                   TRUE, FALSE, Absent, <<>>))
    /\ UNCHANGED <<declared, lastList, remoteZone, remoteRecords, remoteQuotes,
                   changes>>
    /\ UNCHANGED clientVars
    /\ UNCHANGED concVars
    /\ UNCHANGED zoneVars

\* ------------------------------------------------- changes made elsewhere
\* Records that somebody else adds to the zone.
ExternalRecords ==
    {RemoteRecord(ZoneName, TypeNS, 600, <<>>,
                  [EmptyRData EXCEPT
                      !.NameServer = <<"ns", "2", ".", "example", ".", "com">>]),
     RemoteRecord(ZoneName, TypeMX, 600, <<>>,
                  [EmptyRData EXCEPT
                      !.Exchange = <<"backup", ".", "example", ".", "com">>,
                                     !.Preference = 20]),
     RemoteRecord(HostWWW, TypeA, 600, <<>>,
                  [EmptyRData EXCEPT
                      !.IPAddress = <<"1", "0", ".", "0", ".", "0", ".", "2">>]),
     RemoteRecord(HostWWW, TypeTXT, 600, <<>>,
                  [EmptyRData EXCEPT !.Text = TextSPF])}
    \cup {RemoteRecord(ZoneName, TypeMX, 600, <<>>,
                       [EmptyRData EXCEPT !.Exchange = HostMail,
                                          !.Preference = p]) : p \in {10, 20}}

OutOfBandAdd ==
    /\ remoteZone
    /\ changes < MaxChanges
    /\ Len(ops) + changes < MaxOps
    /\ Len(remoteRecords) < MaxRemoteRecords
    /\ \E rec \in ExternalRecords, front \in BOOLEAN :
        /\ \A i \in DOMAIN remoteRecords : remoteRecords[i] # rec
        /\ remoteRecords' = InsertAt(remoteRecords, front, rec)
    /\ changes' = changes + 1
    /\ UNCHANGED <<tracked, prior, declared, diag, ops, lastList, remoteZone,
                   remoteQuotes>>
    /\ UNCHANGED imported
    /\ UNCHANGED clientVars
    /\ UNCHANGED concVars
    /\ UNCHANGED zoneVars

\* Somebody else edits the TTL and the comments of a record.
OutOfBandEdit ==
    /\ changes < MaxChanges
    /\ Len(ops) + changes < MaxOps
    /\ \E i \in DOMAIN remoteRecords :
        remoteRecords' = [remoteRecords EXCEPT ![i].TTL = 900,
                                               ![i].Comments = <<"edited">>]
    /\ changes' = changes + 1
    /\ UNCHANGED <<tracked, prior, declared, diag, ops, lastList, remoteZone,
                   remoteQuotes>>
    /\ UNCHANGED imported
    /\ UNCHANGED clientVars
    /\ UNCHANGED concVars
    /\ UNCHANGED zoneVars

OutOfBandDelete ==
    /\ changes < MaxChanges
    /\ Len(ops) + changes < MaxOps
    /\ \E i \in DOMAIN remoteRecords :
        remoteRecords' = RemoveAt(remoteRecords, i)
    /\ changes' = changes + 1
    /\ UNCHANGED <<tracked, prior, declared, diag, ops, lastList, remoteZone,
                   remoteQuotes>>
    /\ UNCHANGED imported
    /\ UNCHANGED clientVars
    /\ UNCHANGED concVars
    /\ UNCHANGED zoneVars

OutOfBandZoneDelete ==
    /\ remoteZone
    /\ changes < MaxChanges
    /\ Len(ops) + changes < MaxOps
    /\ remoteZone' = FALSE
    /\ remoteRecords' = <<>>
    /\ changes' = changes + 1
    /\ UNCHANGED <<tracked, prior, declared, diag, ops, lastList, remoteQuotes>>
    /\ UNCHANGED imported
    /\ UNCHANGED clientVars
    /\ UNCHANGED concVars
    /\ UNCHANGED zoneVars

\* ------------------------------------- calls in flight on a shared client
\* provider.Configure hands one *Client to every resource and data source,
\* so several execute calls run doRequest on it at once.
Flights == {1, 2}

\* The tokens the server hands out, in the order of the logins.
SessionTokens ==
    <<"session1", "session2", "session3", "session4", "session5", "session6",
      "session7", "session8", "session9", "session10", "session11">>

\* What a read of Client.Token overlapping an unsynchronised assignment can
\* yield.
TornToken == "torn"

Flight(at, a, seen, got, res) ==
    [pc |-> at, attempt |-> a, seen |-> seen, got |-> got, result |-> res]

Exchange(f, op, tok, out) == [flight |-> f, op |-> op, tok |-> tok, out |-> out]

\* The values a read of Client.Token can yield: the stored one, or while
\* another call is assigning the field, also the new one or a torn one.
ReadToken ==
    {Token}
    \cup {flights[g].got : g \in writing}
    \cup (IF writing = {} THEN {} ELSE {TornToken})

\* Mutant: the token is stored only if the expired one is still in place.
StoredIfUnchanged(old, seen, new) == IF old = seen THEN new ELSE old

\* Login: c.Token = response.Token.
Stored(old, seen, new) == new

\* The position after iteration a of the loop ended with a continue or fell
\* through.
AfterIteration(f, a, res) ==
    IF LoopContinues(a + 1, retries)
        THEN [f EXCEPT !.pc = "backoff", !.attempt = a + 1]
    ELSE [f EXCEPT !.pc = "done", !.attempt = a + 1, !.result = res]

\* DoRequest: Authenticate reads the token, then the loop begins.
FlightStart(f) ==
    /\ flights[f].pc = "idle"
    /\ \E t \in ReadToken :
        flights' = [flights EXCEPT ![f].pc =
                        IF t = "" /\ hasCreds THEN "login" ELSE "send"]
    /\ UNCHANGED <<Token, writing, server, log>>
    /\ UNCHANGED soloVars
    /\ UNCHANGED recVars
    /\ UNCHANGED zoneVars

\* One attempt: makeRequest reads the token and the server answers.
FlightSend(f) ==
    /\ flights[f].pc = "send"
    /\ \E t \in ReadToken, conn \in BOOLEAN :
        LET out == IF ~conn THEN "fail"
                   ELSE IF t \in server.valid THEN "ok" ELSE "invalid-token"
            err == IF out = "fail" THEN <<"request failed", "connection error">>
                   ELSE IF out = "ok" THEN NoErr
                   ELSE <<"invalid-token", "session expired or invalid token">>
            me == flights[f]
        IN  /\ log' = Append(log, Exchange(f, "send", t, out))
            /\ flights' = [flights EXCEPT ![f] =
                   IF err = NoErr THEN [me EXCEPT !.pc = "done", !.result = "ok"]
                   ELSE IF ShouldReauth(err, hasCreds)
                       THEN [me EXCEPT !.pc = "login", !.seen = t]
                   ELSE AfterIteration(me, me.attempt, "error")]
    /\ UNCHANGED <<Token, writing, server>>
    /\ UNCHANGED soloVars
    /\ UNCHANGED recVars
    /\ UNCHANGED zoneVars

\* Login's exchange: the server opens a session, or the login fails.
FlightLogin(f) ==
    /\ flights[f].pc = "login"
    /\ \E granted \in BOOLEAN :
        LET new == SessionTokens[server.issued + 1]
        IN  IF granted
                THEN /\ server' = [server EXCEPT !.issued = @ + 1,
                                                 !.valid = @ \cup {new}]
                     /\ flights' = [flights EXCEPT ![f].pc = "store",
                                                   ![f].got = new]
                     /\ log' = Append(log, Exchange(f, "login", new, "ok"))
            ELSE /\ flights' = [flights EXCEPT
                                    ![f].pc = "done",
                                    ![f].result = "authentication failed"]
                 /\ log' = Append(log, Exchange(f, "login", "", "fail"))
                 /\ UNCHANGED server
    /\ UNCHANGED <<Token, writing>>
    /\ UNCHANGED soloVars
    /\ UNCHANGED recVars
    /\ UNCHANGED zoneVars

\* Login's assignment to c.Token begins.
FlightStoreBegin(f) ==
    /\ flights[f].pc = "store"
    /\ flights' = [flights EXCEPT ![f].pc = "storing"]
    /\ writing' = writing \cup {f}
    /\ UNCHANGED <<Token, server, log>>
    /\ UNCHANGED soloVars
    /\ UNCHANGED recVars
    /\ UNCHANGED zoneVars

\* Login's assignment to c.Token is complete; an assignment overlapping
\* another one may leave a torn value.
FlightStoreEnd(f) ==
    /\ flights[f].pc = "storing"
    /\ \E torn \in (IF writing = {f} THEN {FALSE} ELSE BOOLEAN) :
        Token' = IF torn THEN TornToken
                 ELSE Stored(Token, flights[f].seen, flights[f].got)
    /\ writing' = writing \ {f}
    /\ log' = Append(log, Exchange(f, "store", flights[f].got, "ok"))
    /\ flights' = [flights EXCEPT ![f] =
                       AfterIteration(@, @.attempt, "error")]
    /\ UNCHANGED server
    /\ UNCHANGED soloVars
    /\ UNCHANGED recVars
    /\ UNCHANGED zoneVars

\* The backoff wait before a retry.
FlightBackoff(f) ==
    /\ flights[f].pc = "backoff"
    /\ flights' = [flights EXCEPT ![f].pc = "send"]
    /\ UNCHANGED <<Token, writing, server, log>>
    /\ UNCHANGED soloVars
    /\ UNCHANGED recVars
    /\ UNCHANGED zoneVars

\* The server lets its sessions expire.
SessionExpires ==
    /\ server.expiries < MaxExpiries
    /\ server.valid # {}
    /\ server' = [server EXCEPT !.valid = {}, !.expiries = @ + 1]
    /\ UNCHANGED <<Token, flights, writing, log>>
    /\ UNCHANGED soloVars
    /\ UNCHANGED recVars
    /\ UNCHANGED zoneVars

\* The calls in flight while a single call is exercised.
ConcParked ==
    /\ flights = [f \in Flights |-> Flight("idle", 0, "", "", "")]
    /\ writing = {}
    /\ server = [valid |-> {}, issued |-> 0, expiries |-> 0]
    /\ log = <<>>

\* A client with credentials and one retry that holds a session's token.
ConcInit ==
    /\ retries = 1
    /\ hasCreds = TRUE
    /\ Token = SessionTokens[1]
    /\ pc = "idle"
    /\ attempt = 0
    /\ lastErr = NoErr
    /\ result = NoErr
    /\ cancelled = FALSE
    /\ calls = 0
    /\ trace = <<>>
    /\ lastResp = ConnectionFailure
    /\ flights = [f \in Flights |-> Flight("idle", 0, "", "", "")]
    /\ writing = {}
    /\ server = [valid |-> {SessionTokens[1]}, issued |-> 1, expiries |-> 0]
    /\ log = <<>>
    /\ tracked = Absent
    /\ prior = Absent
    /\ declared = Absent
    /\ diag = NoErr
    /\ ops = <<>>
    /\ lastList = <<>>
    /\ remoteZone = TRUE
    /\ remoteRecords = <<>>
    /\ remoteQuotes = FALSE
    /\ changes = 0
    /\ imported = <<>>
    /\ ZoneParked

ConcNext ==
    \/ \E f \in Flights :
        \/ FlightStart(f)
        \/ FlightSend(f)
        \/ FlightLogin(f)
        \/ FlightStoreBegin(f)
        \/ FlightStoreEnd(f)
        \/ FlightBackoff(f)
    \/ SessionExpires

SpecConcurrent == ConcInit /\ [][ConcNext]_vars

\* The record variables while only the client is exercised.
RecParked ==
    /\ tracked = Absent
    /\ prior = Absent
    /\ declared = Absent
    /\ diag = NoErr
    /\ ops = <<>>
    /\ lastList = <<>>
    /\ remoteZone = TRUE
    /\ remoteRecords = <<>>
    /\ remoteQuotes = FALSE
    /\ changes = 0
    /\ imported = <<>>

\* The client variables while only the record resource is exercised.
ClientParked ==
    /\ retries = DefaultRetryAttempts
    /\ hasCreds = TRUE
    /\ Token = "session"
    /\ pc = "idle"
    /\ attempt = 0
    /\ lastErr = NoErr
    /\ result = NoErr
    /\ cancelled = FALSE
    /\ calls = 0
    /\ trace = <<>>
    /\ lastResp = ConnectionFailure

\* A zone without records, served by either flavour of the remote API.
RecordsInit ==
    /\ tracked = Absent
    /\ prior = Absent
    /\ declared = Absent
    /\ diag = NoErr
    /\ ops = <<>>
    /\ lastList = <<>>
    /\ remoteZone = TRUE
    /\ remoteRecords = <<>>
    /\ remoteQuotes \in BOOLEAN
    /\ changes = 0
    /\ imported = <<>>
    /\ ClientParked
    /\ ConcParked
    /\ ZoneParked

RecordsNext ==
    \/ Create
    \/ Read
    \/ Update
    \/ Delete
    \/ ImportState
    \/ OutOfBandAdd
    \/ OutOfBandEdit
    \/ OutOfBandDelete
    \/ OutOfBandZoneDelete

SpecRecords == RecordsInit /\ [][RecordsNext]_vars

\* ------------------------------------------------------------ zone resource
\* zone_resource.go: Create, Read, Update, Delete and ImportState of one
\* tracked zone, one step per lifecycle callback.  Specification SpecZones.
\* A remote zone is its name, its type and its catalog ("" when it has none).

\* Mutant: the identity is made of the name and the type of the zone.
ReadZoneCompositeID(data, z) ==
    [data EXCEPT !.ID = data.Name \o Colon \o z.type,
                 !.Type = z.type,
                 !.Catalog = IF z.catalog # <<>> THEN Some(z.catalog) ELSE @]

\* readZone: the model after the zone options were fetched.
ReadZone(data, z) ==
    [data EXCEPT !.ID = data.Name,
                 !.Type = z.type,
                 !.Catalog = IF z.catalog # <<>> THEN Some(z.catalog) ELSE @]

\* Create: createZone, the identity, readZone, then the state is saved.
ZoneCreate ==
    /\ zoneState = Absent
    /\ Len(zoneOps) < MaxZoneOps
    /\ \E name \in {ZoneName, <<"test", ".", "org">>},
          type \in {<<"Primary">>, <<"Forwarder">>},
          catalog \in {None, Some(<<"catalog">>)},
          net \in BOOLEAN, readNet \in BOOLEAN :
        LET made == [name |-> name, type |-> type,
                     catalog |-> IF catalog = None THEN <<>> ELSE catalog[1]]
            created == net /\ ~\E z \in zoneRemote : z.name = name
            data == [ID |-> name, Name |-> name, Type |-> type,
                     Catalog |-> catalog]
        IN  /\ zoneRemote' = IF created THEN zoneRemote \cup {made}
                             ELSE zoneRemote
            /\ zoneState' = IF created /\ readNet THEN ReadZone(data, made)
                            ELSE zoneState
            /\ zoneOps' = Append(zoneOps, [op |-> "Create",
                                          ok |-> created /\ readNet])
    /\ UNCHANGED clientVars
    /\ UNCHANGED recVars
    /\ UNCHANGED concVars

\* Read: readZone; an error whose text contains "not found" removes the
\* instance, any other error keeps it.  The text of the remote API's answer
\* for a missing zone is the remote side's choice (notFound).
ZoneRead ==
    /\ zoneState # Absent
    /\ Len(zoneOps) < MaxZoneOps
    /\ \E net \in BOOLEAN, notFound \in BOOLEAN :
        LET hits == {z \in zoneRemote : z.name = zoneState.Name}
        IN  /\ zoneState' =
                   IF ~net THEN zoneState
                   ELSE IF hits = {}
                       THEN IF notFound THEN Absent ELSE zoneState
                   ELSE ReadZone(zoneState, CHOOSE z \in hits : TRUE)
            /\ zoneOps' = Append(zoneOps,
                                [op |-> "Read",
                                 ok |-> net /\ (hits # {} \/ notFound)])
    /\ UNCHANGED zoneRemote
    /\ UNCHANGED clientVars
    /\ UNCHANGED recVars
    /\ UNCHANGED concVars

\* Update: updateZone with the planned options (the name and the type of
\* the plan are those of the state, a change of either replaces the
\* instance), readZone, then the state is saved.
ZoneUpdate ==
    /\ zoneState # Absent
    /\ Len(zoneOps) < MaxZoneOps
    /\ \E catalog \in {None, Some(<<"catalog">>), Some(<<"other">>)},
          net \in BOOLEAN, readNet \in BOOLEAN :
        LET plan == [zoneState EXCEPT !.Catalog = catalog]
            hits == {z \in zoneRemote : z.name = plan.Name}
            old == CHOOSE z \in hits : TRUE
            set == [old EXCEPT !.catalog = IF catalog = None THEN @
                                           ELSE catalog[1]]
            updated == net /\ hits # {}
        IN  /\ zoneRemote' = IF updated THEN (zoneRemote \ {old}) \cup {set}
                             ELSE zoneRemote
            /\ zoneState' = IF updated /\ readNet THEN ReadZone(plan, set)
                            ELSE zoneState
            /\ zoneOps' = Append(zoneOps, [op |-> "Update",
                                          ok |-> updated /\ readNet])
    /\ UNCHANGED clientVars
    /\ UNCHANGED recVars
    /\ UNCHANGED concVars

\* Delete: deleteZone; the instance leaves the state unless it failed.
ZoneDelete ==
    /\ zoneState # Absent
    /\ Len(zoneOps) < MaxZoneOps
    /\ \E net \in BOOLEAN :
        LET hits == {z \in zoneRemote : z.name = zoneState.Name}
            deleted == net /\ hits # {}
        IN  /\ zoneRemote' = IF deleted THEN zoneRemote \ hits ELSE zoneRemote
            /\ zoneState' = IF deleted THEN Absent ELSE zoneState
            /\ zoneOps' = Append(zoneOps, [op |-> "Delete", ok |-> deleted])
    /\ UNCHANGED clientVars
    /\ UNCHANGED recVars
    /\ UNCHANGED concVars

\* ImportState: the id and the name are the identity given; every other
\* attribute is null.
ZoneImportState ==
    /\ zoneState = Absent
    /\ Len(zoneOps) < MaxZoneOps
    /\ \E id \in {ZoneName, <<"test", ".", "org">>, <<"Example", ".", "COM">>} :
        zoneState' = [ID |-> id, Name |-> id, Type |-> <<>>, Catalog |-> None]
    /\ zoneOps' = Append(zoneOps, [op |-> "ImportState", ok |-> TRUE])
    /\ UNCHANGED zoneRemote
    /\ UNCHANGED clientVars
    /\ UNCHANGED recVars
    /\ UNCHANGED concVars

\* Somebody else deletes a zone of the remote server.
ZoneRemovedElsewhere ==
    /\ Len(zoneOps) < MaxZoneOps
    /\ \E z \in zoneRemote : zoneRemote' = zoneRemote \ {z}
    /\ zoneOps' = Append(zoneOps, [op |-> "RemovedElsewhere", ok |-> TRUE])
    /\ UNCHANGED zoneState
    /\ UNCHANGED clientVars
    /\ UNCHANGED recVars
    /\ UNCHANGED concVars

\* No zone is tracked; the remote server holds none, or a primary zone.
ZonesInit ==
    /\ zoneState = Absent
    /\ zoneRemote \in {{}, {[name |-> ZoneName, type |-> <<"Primary">>,
                             catalog |-> <<>>]}}
    /\ zoneOps = <<>>
    /\ ClientParked
    /\ RecParked
    /\ ConcParked

ZonesNext ==
    \/ ZoneCreate
    \/ ZoneRead
    \/ ZoneUpdate
    \/ ZoneDelete
    \/ ZoneImportState
    \/ ZoneRemovedElsewhere

SpecZones == ZonesInit /\ [][ZonesNext]_vars

\* ------------------------------------------------------------ specifications
Init == ClientInit /\ RecParked /\ ConcParked /\ ZoneParked

Next == DoRequest \/ AuthLogin \/ Backoff \/ Send \/ Relogin \/ Cancel

Spec == Init /\ [][Next]_vars

\* Every exchange ends, within the Timeout of the HTTP client at the latest,
\* and so does every backoff wait.
SpecFair ==
    /\ Spec
    /\ WF_vars(AuthLogin) /\ WF_vars(Send) /\ WF_vars(Relogin)
    /\ WF_vars(Backoff)


\* ------------------------------------------------------------ observations
SendEvents == SelectSeq(trace, LAMBDA e : e.op = "send")

Sends == Len(SendEvents)

\* Login calls made by the re-authentication branch of doRequest.
Relogins == Len(SelectSeq(trace, LAMBDA e : e.op = "relogin"))

\* Login calls made by Authenticate.
AuthLogins == Len(SelectSeq(trace, LAMBDA e : e.op = "login"))

HTTPCalls == Sends + Relogins + AuthLogins

NoLoginFailed ==
    \A i \in DOMAIN trace :
        trace[i].op \in {"login", "relogin"} => trace[i].out = "ok"

\* The response r has envelope status "error".
IsDomainError(r) ==
    r.conn /\ r.code >= 200 /\ r.code < 300 /\ r.json /\ r.status = "error"

\* The message a status "error" response carries.
RemoteMessage(r) ==
    IF r.errorMessage # "" THEN r.errorMessage
    ELSE IF r.error # "" THEN r.error ELSE "unknown error"

\* ------------------------------------------------------------------ claims

\* C1 (as amended): one execute call sends the original request at most
\* retries + 1 times (one first attempt and RetryAttempts retries), and not
\* at all when the configured RetryAttempts is negative.
C1_SendsAtMostRetriesPlusOne ==
    Sends <= (IF retries >= 0 THEN retries + 1 ELSE 0)

C1_Witness ==
    /\ pc = "done"
    /\ retries = DefaultRetryAttempts
    /\ Sends = retries + 1
    /\ result # NoErr

\* C1 (original): an execute call sends the request at most RetryAttempts
\* times.
C1_Original == retries >= 1 => Sends <= retries

\* C2: the call finished, the first attempt answered invalid-token,
\* credentials are configured, no login failed and the retried request
\* succeeded.
C2_Scenario ==
    /\ pc = "done"
    /\ hasCreds
    /\ ~cancelled
    /\ Sends >= 1
    /\ SendEvents[1].out = "invalid-token"
    /\ Sends >= 2 => SendEvents[2].out = "ok"
    /\ NoLoginFailed

\* C2 (as amended): in that scenario the retry loop makes exactly one login
\* followed by exactly one retry of the request, which makes 3 HTTP calls,
\* and one more when Authenticate had to log in first.
C2_OneLoginOneRetry ==
    C2_Scenario =>
        /\ SelectSeq(trace, LAMBDA e : e.op # "login")
               = <<Event("send", "invalid-token"), Event("relogin", "ok"),
                         Event("wait", "elapsed"), Event("send", "ok")>>
        /\ result = NoErr
        /\ HTTPCalls = 3 + AuthLogins
        /\ AuthLogins <= 1

C2_Witness == C2_Scenario /\ Sends = 2 /\ Relogins = 1 /\ retries = 1

\* C2 (original): in that scenario exactly one login call is made, followed
\* by exactly one retry, and at most RetryAttempts HTTP calls are made.
C2_Original ==
    C2_Scenario =>
        /\ Relogins + AuthLogins = 1
        /\ Sends = 2
        /\ HTTPCalls <= retries

\* C3 (as amended): with credentials available every attempt that answers
\* invalid-token is followed by exactly one login call, so a call makes at
\* most one login per attempt, retries + 1 in all.
C3_OneLoginPerInvalidToken ==
    hasCreds =>
        /\ \A i \in DOMAIN trace :
               trace[i] = Event("send", "invalid-token") =>
                   IF i = Len(trace) THEN pc = "relogin"
                   ELSE trace[i + 1].op = "relogin"
        /\ \A i \in DOMAIN trace :
               trace[i].op = "relogin" => i > 1 /\ trace[i - 1].op = "send"
        /\ Relogins <= Sends
        /\ Sends <= (IF retries >= 0 THEN retries + 1 ELSE 0)

C3_Witness ==
    /\ pc = "done"
    /\ hasCreds
    /\ retries >= 1
    /\ Relogins = retries + 1
    /\ \A i \in DOMAIN SendEvents : SendEvents[i].out = "invalid-token"

\* C3 (original): at most one login call is made per execute call.
C3_Original == hasCreds => Relogins <= 1

\* C8 (as amended): a response with envelope status "error" is retried like
\* any other failure; the call returns right after such a response only when
\* it answered the last attempt of the budget, and then surfaces the error
\* with the remote message intact.
C8_DomainErrorRetried ==
    (/\ pc = "done"
     /\ Len(trace) >= 1
     /\ trace[Len(trace)].op = "send"
     /\ IsDomainError(lastResp)) =>
        /\ Sends = retries + 1
        /\ result = <<"API error", RemoteMessage(lastResp)>>

C8_Witness ==
    /\ pc = "done"
    /\ Sends = DefaultRetryAttempts + 1
    /\ trace[Len(trace)].op = "send"
    /\ \A i \in DOMAIN SendEvents : SendEvents[i].out = "error"
    /\ lastResp.errorMessage = "Zone does not exist"

\* C8 (original): a response with envelope status "error" is never retried:
\* the call makes exactly one HTTP call for it and surfaces the error.
C8_Original ==
    (pc = "done" /\ ~cancelled /\ Sends >= 1 /\ SendEvents[1].out = "error") =>
        /\ Sends = 1
        /\ result # NoErr
        /\ result[1] = "API error"

\* C9: when every attempt fails with something other than InvalidToken, the
\* call uses the whole attempt budget, makes no login call in its retry loop
\* and returns the failure of the last attempt unchanged.
C9_OtherFailuresRetriedWithoutLogin ==
    (/\ pc = "done"
     /\ ~cancelled
     /\ Sends >= 1
     /\ \A i \in DOMAIN SendEvents :
            SendEvents[i].out \notin {"ok", "invalid-token"}) =>
        /\ Relogins = 0
        /\ Sends = retries + 1
        /\ result = MakeRequest(lastResp)

\* C10: the backoff wait is never observed between a successful
\* re-authentication and the attempt that follows it.
C10_NoBackoffAfterReauth ==
    \A i \in DOMAIN trace :
        trace[i].op = "wait" => i > 1 /\ trace[i - 1].op # "relogin"

\* C11: when the login of the re-authentication branch fails, the call
\* returns "authentication failed" wrapping that login error at once: the
\* failed login is the last exchange of the call.
C11_FailedReloginEndsCall ==
    \A i \in DOMAIN trace :
        trace[i] = Event("relogin", "fail") =>
            /\ i = Len(trace)
            /\ pc = "done"
            /\ \E e \in {LoginErr(l) : l \in LoginResponses} \ {NoErr} :
                   result = Wrap("authentication failed", e)

C11_Witness ==
    /\ pc = "done"
    /\ ~cancelled
    /\ Len(trace) >= 2
    /\ trace[Len(trace)] = Event("relogin", "fail")
    /\ trace[Len(trace) - 1] = Event("send", "invalid-token")
    /\ Sends <= retries
    /\ result = <<"authentication failed", "login failed",
                  "API request failed with status", "Unauthorized">>

\* C12: a login call is sent only by Authenticate as the first exchange of a
\* call (the stored token was empty), or right after an attempt that
\* answered invalid-token; a client without username/password sends none.
C12_LoginOnlyWhenNoTokenOrInvalidToken ==
    /\ \A i \in DOMAIN trace :
           /\ trace[i].op = "login" => i = 1
           /\ trace[i].op = "relogin" =>
                  i > 1 /\ trace[i - 1] = Event("send", "invalid-token")
    /\ ~hasCreds => AuthLogins + Relogins = 0

\* C13: a backoff wait that finds the context cancelled, at its start or
\* while waiting, ends the call with the context's error and no further
\* exchange.
C13_CancelledWaitEndsCall ==
    [][(pc = "backoff" /\ cancelled) =>
           /\ pc' = "done"
           /\ result' = <<"context canceled">>
           /\ trace' = Append(trace, Event("wait", "cancelled"))
           /\ Sends' = Sends]_vars

C13_Witness ==
    /\ pc = "done"
    /\ cancelled
    /\ trace # <<>>
    /\ trace[Len(trace)] = Event("wait", "cancelled")
    /\ Sends >= 1
    /\ Sends <= retries
    /\ result = <<"context canceled">>


\* ---------------------------------------------------- record observations
Last(s) == s[Len(s)]

\* Nothing but the callbacks of the tracked instance changed the zone.
Pristine == changes = 0

\* The last callback was op, its request got through, and it reported no
\* error.
Succeeded(op) ==
    /\ ops # <<>>
    /\ Last(ops).op = op
    /\ Last(ops).net
    /\ Last(ops).ok

\* A Read that directly follows the Create of the tracked instance.
ReadAfterCreate ==
    /\ Len(ops) >= 2
    /\ ops[Len(ops) - 1].op = "Create"
    /\ ops[Len(ops) - 1].ok
    /\ Succeeded("Read")

\* What a Read of the given instance would find in the remote zone now.
WouldFind(data) ==
    LET d == DecodeID(data.ID)
        answer == RemoteGet(d.zone, FormatRecordName(d.name, d.zone))
    IN  answer.err = NoErr /\ FindRecord(answer.records, d) # 0

\* C4: a record of any supported type created through Create is found by a
\* following Read with the same TTL, type and data when nothing changed
\* remotely, and after Delete a Read would not find it.
C4_CreateReadDelete ==
    /\ (Pristine /\ ReadAfterCreate) =>
           /\ tracked # Absent
           /\ tracked.TTL = declared.TTL
           /\ tracked.Type = declared.Type
           /\ tracked.Data = declared.Data
    /\ (Pristine /\ Succeeded("Delete")) => ~WouldFind(prior)

\* C5: the identity of a created record decodes to the record's zone, name,
\* type, priority and data, the data being lost for TXT and FWD.
C5_DecodeEncode ==
    (Succeeded("Create") /\ tracked # Absent) =>
        LET d == DecodeID(RecordID(declared))
        IN  /\ d.ok
            /\ d.zone = declared.Zone
            /\ d.name = declared.Name
            /\ d.type = declared.Type
            /\ d.priority = OrZero(declared.Priority)[1]
            /\ d.data = IF declared.Type \in {TypeTXT, TypeFWD} THEN <<>>
                        ELSE declared.Data

\* The records of the last list query that pass the constraints decoded from
\* the identity the Read was given.
Passing ==
    {i \in DOMAIN lastList : MatchesRecord(lastList[i], DecodeID(prior.ID))}

\* C6: after a list query that succeeded, Read reports no error; it removes
\* the instance when no listed record passes the constraints decoded from
\* the identity, and else saves the first passing record in list order.
C6_FirstMatchOrRemoved ==
    Succeeded("Read") =>
        /\ diag = NoErr
        /\ Passing = {} => tracked = Absent
        /\ Passing # {} =>
               LET first == CHOOSE i \in Passing : \A j \in Passing : i <= j
               IN  tracked = ReadState(prior, lastList[first],
                                       DecodeID(prior.ID))

C6_Witness ==
    /\ Succeeded("Read")
    /\ Cardinality(Passing) >= 2
    /\ \E i, j \in Passing : lastList[i] # lastList[j]
    /\ tracked # Absent

\* C7: a Delete of an instance that the remote zone no longer holds reports
\* no error.
C7_DeleteOfMissingSucceeds ==
    (ops # <<>> /\ Last(ops).op = "Delete" /\ Last(ops).net
        /\ ~Last(ops).held) => Last(ops).ok

\* ------------------------------------------------- shared-client claims
Stores == SelectSeq(log, LAMBDA e : e.op = "store")

\* Flight x saw t rejected, logged in, stored its token at position i, flight
\* y (which saw the same t rejected) stored another token at position j
\* after it, and x then sent its retry, at position k, with y's token.
Overwritten(x, y, t, i, j, k) ==
    /\ x # y
    /\ i < j /\ j < k
    /\ \E a, b \in 1 .. (i - 1) :
           /\ log[a] = Exchange(x, "send", t, "invalid-token")
           /\ log[b] = Exchange(y, "send", t, "invalid-token")
    /\ log[i].flight = x /\ log[i].op = "store"
    /\ log[j].flight = y /\ log[j].op = "store"
    /\ log[i].tok # log[j].tok
    /\ \A m \in (i + 1) .. (k - 1) : log[m].flight # x
    /\ log[k].flight = x /\ log[k].op = "send"
    /\ log[k].tok = log[j].tok

\* C14: nothing orders the token accesses of two calls in flight: the token
\* a login stores replaces whatever is there, also a token that the other
\* call stored since this call saw the old one rejected (or it is torn when
\* the two assignments overlap).
C14_LastStoreWins ==
    Stores # <<>> => Token \in {Stores[Len(Stores)].tok, TornToken}

C14_Witness ==
    \E x, y \in Flights, i, j, k \in DOMAIN log :
        Overwritten(x, y, SessionTokens[1], i, j, k)

\* ---------------------------------------------------------- identity claims
\* The segments zone, name, type and, where asked for, priority and data,
\* joined by colons in that order.
Joined(r, withPriority, withData) ==
    r.Zone \o Colon \o r.Name \o Colon \o r.Type
    \o (IF withPriority THEN Colon \o FormatInt(r.Priority[1]) ELSE <<>>)
    \o (IF withData THEN Colon \o r.Data ELSE <<>>)

Created == Succeeded("Create") /\ tracked # Absent

HasData(r) == r.Type \notin {TypeTXT, TypeFWD} /\ r.Data # <<>>

Siblings ==
    {q \in Plans : /\ q.Zone = declared.Zone
                   /\ q.Name = declared.Name
                   /\ q.Type = declared.Type
                   /\ q.Priority = declared.Priority}

\* C16: the identity of a TXT or FWD record ends with its type (or
\* priority) and is shared by every record of the same zone, name and type
\* whatever its data; the identity of a record of another type ends with
\* the colon and its non-empty data.
C16_DataOmittedForTXTAndFWD ==
    Created =>
        IF declared.Type \in {TypeTXT, TypeFWD}
            THEN /\ tracked.ID = Joined(declared, declared.Priority # None,
                                        FALSE)
                 /\ \A q \in Siblings : RecordID(q) = tracked.ID
        ELSE declared.Data # <<>> =>
                 HasSuffix(tracked.ID, Colon \o declared.Data)

C16_Witness ==
    /\ Created
    /\ declared.Type = TypeTXT
    /\ \E q \in Siblings :
           q.Data # declared.Data /\ RecordID(q) = tracked.ID

Imported == ops # <<>> /\ Last(ops).op = "ImportState"

\* The colon-delimited segments of the identity given to ImportState.
Segments == Split(imported, ":")

\* The 4th segment as a number.
Fourth == ParseInt(Segments[4])

\* C17 (as amended): ImportState fails exactly when the identity has fewer
\* than 3 segments.  Otherwise it and the decoding of Read take zone, name
\* and type from the first three; a 4th segment is the priority when it
\* parses as a number and, when it is the last one, the data otherwise; a
\* 5th segment is the data, and then a 4th segment that is not a number is
\* dropped.
C17_DecodeSegments ==
    Imported =>
        /\ Last(ops).ok <=> Len(Segments) >= 3
        /\ Len(Segments) < 3 => tracked = Absent
        /\ Len(Segments) >= 3 =>
               LET d == DecodeID(tracked.ID)
                   n == Len(Segments)
                   num == n > 3 /\ Fourth.ok
                   data == IF n > 4 THEN Segments[5]
                           ELSE IF n = 4 /\ ~num THEN Segments[4]
                           ELSE <<>>
               IN  /\ tracked.ID = imported
                   /\ d.ok
                   /\ <<d.zone, d.name, d.type>> = SubSeq(Segments, 1, 3)
                   /\ <<tracked.Zone, tracked.Name, tracked.Type>>
                          = SubSeq(Segments, 1, 3)
                   /\ d.priority = IF num THEN Fourth.val ELSE 0
                   /\ tracked.Priority
                          = IF num THEN Some(Fourth.val) ELSE None
                   /\ d.data = data
                   /\ tracked.Data = data

C17_Witness ==
    /\ Imported
    /\ Len(Segments) = 5
    /\ ~Fourth.ok
    /\ DecodeID(tracked.ID).priority = 0
    /\ DecodeID(tracked.ID).data = IPv4Example

\* C17 (original): decoding fails only for fewer than 3 segments; of 4
\* segments the 4th is the priority if it parses as a number and the data
\* otherwise; of 5 segments the 4th is the priority and the 5th the data.
C17_Original ==
    Imported =>
        /\ Last(ops).ok <=> Len(Segments) >= 3
        /\ Len(Segments) = 4 =>
               LET d == DecodeID(tracked.ID)
               IN  IF Fourth.ok
                       THEN d.priority = Fourth.val /\ d.data = <<>>
                   ELSE d.priority = 0 /\ d.data = Segments[4]
        /\ Len(Segments) = 5 =>
               LET d == DecodeID(tracked.ID)
               IN  /\ FormatInt(d.priority) = Segments[4]
                   /\ d.data = Segments[5]

\* ------------------------------------------------------- matching claims
\* The listed record the latest Read took its values from.
Matched == lastList[CHOOSE i \in Passing : \A j \in Passing : i <= j]

Found == Succeeded("Read") /\ tracked # Absent

\* The identity of the tracked instance is as Create or ImportState made
\* it: no Update has run since.
NeverUpdated == \A i \in DOMAIN ops : ops[i].op # "Update"

\* The identity has a 4th segment that is a number.
CarriesPriority(id) ==
    Len(Split(id, ":")) > 3 /\ ParseInt(Split(id, ":")[4]).ok

\* C18: the MX record that Read selects passes every constraint the
\* identity supplies: its preference is the identity's priority and its
\* exchange is the identity's data.
C18_MXPassesEveryConstraint ==
    (Found /\ prior.Type = TypeMX /\ NeverUpdated) =>
        LET d == DecodeID(prior.ID)
        IN  /\ CarriesPriority(prior.ID) =>
                   Matched.RData.Preference = d.priority
            /\ d.data # <<>> => Matched.RData.Exchange = d.data

\* C19: when Read finds a match, the TTL, data, priority, weight, port and
\* comments of the tracked instance, and the protocol and forwarder of a FWD
\* record, are those of the matched remote record.
C19_EveryFieldFromMatch ==
    Found =>
        /\ tracked.TTL = Matched.TTL
        /\ tracked.Data = DataOf(tracked.Type, Matched, <<>>)
        /\ (IF tracked.Comments = None THEN <<>> ELSE tracked.Comments[1])
               = Matched.Comments
        /\ tracked.Type = TypeMX =>
               tracked.Priority = Some(Matched.RData.Preference)
        /\ tracked.Type = TypeSRV =>
               /\ tracked.Priority = Some(Matched.RData.Priority)
               /\ tracked.Weight = Some(Matched.RData.Weight)
               /\ tracked.Port = Some(Matched.RData.Port)
        /\ tracked.Type = TypeFWD =>
               /\ tracked.Protocol = Some(Matched.RData.Protocol)
               /\ tracked.Forwarder = Some(Matched.RData.Forwarder)

\* What a Read of the given instance would save now.
WouldRead(data) ==
    LET d == DecodeID(data.ID)
        answer == RemoteGet(d.zone, FormatRecordName(d.name, d.zone))
        found == FindRecord(answer.records, d)
    IN  IF answer.err # NoErr \/ found = 0 THEN Absent
        ELSE ReadState(data, answer.records[found], d)

\* A Read that directly follows an Update of the tracked instance.
ReadAfterUpdate ==
    /\ Len(ops) >= 2
    /\ ops[Len(ops) - 1].op = "Update"
    /\ ops[Len(ops) - 1].net
    /\ ops[Len(ops) - 1].ok
    /\ Succeeded("Read")

\* The forwarder and protocol that a declaration of a FWD record asks for.
DeclaredForwarder == IF declared.Forwarder # None THEN declared.Forwarder[1]
                     ELSE declared.Data

DeclaredProtocol == IF declared.Protocol # None THEN declared.Protocol[1]
                    ELSE <<"Udp">>

C21_InvalidNeverSent ==
    \A i \in DOMAIN ops :
        (ops[i].op \in {"Create", "Update"} /\ ~ops[i].valid) => ~ops[i].sent


\* The parameter names that build(record, "new") and build(record, "current")
\* have in common.
Shared(r) ==
    DOMAIN BuildRecordOptions(r, "new")
        \cap DOMAIN BuildRecordOptions(r, "current")

\* The parameters of a FWD record that are settings and carry one name in
\* every operation.
Settings == {"forwarderPriority"}

C23_ImportOnlySeeds ==
    [][(/\ Len(ops') = Len(ops) + 1
        /\ Last(ops').op = "ImportState") =>
        LET parts == Split(imported', ":")
            n == Len(parts)
            num == n > 3 /\ ParseInt(parts[4]).ok
        IN  /\ ~Last(ops').sent
            /\ remoteZone' = remoteZone
            /\ remoteRecords' = remoteRecords
            /\ lastList' = lastList
            /\ n < 3 => ~Last(ops').ok /\ tracked' = tracked
            /\ n >= 3 =>
                   /\ Last(ops').ok
                   /\ tracked'.ID = imported'
                   /\ <<tracked'.Zone, tracked'.Name, tracked'.Type>>
                          = SubSeq(parts, 1, 3)
                   /\ tracked'.Priority = IF num THEN Some(ParseInt(parts[4]).val)
                                          ELSE None
                   /\ tracked'.Data = IF n > 4 THEN parts[5]
                                      ELSE IF n = 4 /\ ~num THEN parts[4]
                                      ELSE <<>>
                   /\ tracked'.TTL = 0
                   /\ tracked'.Weight = None
                   /\ tracked'.Port = None
                   /\ tracked'.Comments = None
                   /\ tracked'.Protocol = None
                   /\ tracked'.Forwarder = None
                   /\ tracked'.ForwarderPriority = None]_vars

\* An identity with priority and data was imported; the one record of the
\* remote zone is there by somebody else's doing.
C23_Witness ==
    /\ Imported
    /\ Last(ops).ok
    /\ ~Last(ops).sent
    /\ Len(remoteRecords) = 1
    /\ changes = 1
    /\ tracked.Priority = Some(10)
    /\ tracked.Data = HostMail


\* ---------------------------------------------------------- name claims
\* C24: the name sent for a record name of a zone is a fixed point of the
\* formatting: formatting it again for the same zone gives the same name.
C24_NormalizeIdempotent ==
    \A r \in {tracked, prior, declared} \ {Absent} :
        LET sent == FormatRecordName(r.Name, r.Zone)
        IN  FormatRecordName(sent, r.Zone) = sent

\* A record declared by its short name was created under the name with the
\* zone appended, which formatting leaves alone.
C24_Witness ==
    /\ Succeeded("Create")
    /\ tracked.Name = <<"www">>
    /\ remoteRecords # <<>>
    /\ Last(remoteRecords).Name = HostWWW
    /\ FormatRecordName(tracked.Name, tracked.Zone) = HostWWW
    /\ FormatRecordName(HostWWW, tracked.Zone) = HostWWW


\* C25: for the same record name and zone, Create, Read, Update and Delete
\* send the same domain to the remote API, whether the record was declared
\* by the short or by the fully-qualified form of its name.
C25_SameDomainInEveryCallback ==
    \A i \in DOMAIN ops, j \in DOMAIN ops :
        (/\ ops[i].sent /\ ops[j].sent
         /\ ops[i].zone = ops[j].zone
         /\ \/ ops[i].name = ops[j].name
            \/ ops[i].name = ops[j].name \o Dot \o ops[i].zone
            \/ ops[j].name = ops[i].name \o Dot \o ops[i].zone)
            => ops[i].domain = ops[j].domain

\* A record declared by its short name went through Create, Update and
\* Delete, and each of them sent the fully-qualified name.
C25_Witness ==
    /\ Len(ops) = 3
    /\ <<ops[1].op, ops[2].op, ops[3].op>> = <<"Create", "Update", "Delete">>
    /\ \A i \in 1 .. 3 :
           ops[i].ok /\ ops[i].name = <<"www">> /\ ops[i].domain = HostWWW


\* --------------------------------------------------------- error claims
\* The context the provider puts in front of the error of a callback.
ProviderContext(op) ==
    CASE op = "Create" -> "Error creating DNS record"
      [] op = "Read" -> "Error reading DNS record"
      [] op = "Update" -> "Error updating DNS record"
      [] op = "Delete" -> "Error deleting DNS record"
      [] OTHER -> ""

\* The context the client method puts in front of the error of its request.
ClientContext(op) ==
    CASE op = "Create" -> "failed to add DNS record"
      [] op = "Read" -> "failed to get DNS records"
      [] op = "Update" -> "failed to update DNS record"
      [] op = "Delete" -> "failed to delete DNS record"
      [] OTHER -> ""

\* The message with which the remote API refuses the request of the latest
\* callback (a failed callback leaves the remote zone as it was).
RemoteText ==
    IF ~remoteZone \/ Last(ops).zone # ZoneName THEN "No such zone was found"
    ELSE IF Last(ops).op = "Create" THEN "Record already exists"
    ELSE "No such record exists"

\* The latest callback made a request and reported an error.
RequestFailed == ops # <<>> /\ Last(ops).sent /\ ~Last(ops).ok

\* The failure of the latest callback is the error of its request with the
\* context of the client method and of the provider in front.
KeepsRemoteText ==
    RequestFailed =>
        /\ Len(diag) = 4
        /\ diag[1] = ProviderContext(Last(ops).op)
        /\ diag[2] = ClientContext(Last(ops).op)
        /\ Last(ops).net => diag[3] = "API error" /\ diag[4] = RemoteText
        /\ ~Last(ops).net => SubSeq(diag, 3, 4)
                                 = <<"request failed", "connection error">>

ExpectedText == DecodeID(prior.ID).data

\* C27: when the identity carries a text, the TXT records that pass are those
\* whose returned text equals it raw or with the quotes stripped from both;
\* Read saves the first of them with its text unquoted.
C27_TXTMatchesQuotedOrRaw ==
    (/\ Succeeded("Read")
     /\ DecodeID(prior.ID).type = TypeTXT
     /\ ExpectedText # <<>>) =>
        /\ Passing = {i \in DOMAIN lastList :
                          /\ lastList[i].Type = TypeTXT
                          /\ \/ lastList[i].RData.Text = ExpectedText
                             \/ TrimQuotes(lastList[i].RData.Text)
                                    = TrimQuotes(ExpectedText)}
        /\ Passing # {} =>
               /\ tracked # Absent
               /\ tracked.Data = TrimQuotes(Matched.RData.Text)

\* The record stored as v=spf1 -all came back wrapped in quotes and was
\* found.
C27_Witness ==
    /\ Succeeded("Read")
    /\ remoteQuotes
    /\ DecodeID(prior.ID).type = TypeTXT
    /\ ExpectedText = TextSPF
    /\ Passing # {}
    /\ Matched.RData.Text = Quote \o TextSPF \o Quote
    /\ tracked # Absent
    /\ tracked.Data = TextSPF


\* -------------------------------------------------------- update claims
\* The types whose identity carries the data.
TypesWithDataInIdentity ==
    {TypeA, TypeAAAA, TypeCNAME, TypeMX, TypePTR, TypeNS, TypeSRV}

\* C28: after a successful Update of a record whose identity includes its
\* data or priority, the next Read finds the record and reports the values
\* that were declared; it does not remove the instance.
C28_ReadAfterUpdateFinds ==
    (/\ Pristine
     /\ ReadAfterUpdate
     /\ ops[Len(ops) - 1].held
     /\ declared.Type \in TypesWithDataInIdentity) =>
        /\ tracked # Absent
        /\ tracked.Data = declared.Data
        /\ declared.Priority # None => tracked.Priority = declared.Priority


\* C29: when the identity carries the data of a record, Read populates the
\* tracked instance from a listed record with that data and from no other,
\* for every type whose identity includes the data.
C29_PopulatedFromOwnRecord ==
    (/\ Found
     /\ NeverUpdated
     /\ prior.Type \in TypesWithDataInIdentity
     /\ DecodeID(prior.ID).type = prior.Type
     /\ DecodeID(prior.ID).data # <<>>) =>
        /\ DataOf(prior.Type, Matched, <<>>) = DecodeID(prior.ID).data
        /\ tracked.Data = DecodeID(prior.ID).data


\* ---------------------------------------------------------- login claims
\* C30: whenever the login of Authenticate or of the re-authentication
\* branch returns success, the stored token is not empty: a login response
\* without a token is no success.
C30_SuccessfulLoginStoresToken ==
    (/\ trace # <<>>
     /\ Last(trace).op \in {"login", "relogin"}
     /\ Last(trace).out = "ok") => Token # ""

\* ------------------------------------------------- re-authentication trigger
\* C31: doRequest calls Login for re-authentication only after a response
\* whose envelope status is invalid-token; a failure whose text merely
\* contains "invalid-token" does not cause a login call.
C31_ReauthOnlyOnInvalidTokenStatus ==
    pc = "relogin" =>
        /\ lastResp.conn /\ lastResp.code >= 200 /\ lastResp.code < 300
        /\ lastResp.json
        /\ lastResp.status = "invalid-token"

\* ------------------------------------------------- failed remote calls
\* C32: when the request of Create, Update or Delete fails (it does not get
\* through, or the remote API refuses it), the tracked state is left as it
\* was before the callback: Create records no identity, Update keeps the
\* previously tracked values and Delete keeps the instance.
C32_FailedCallKeepsState ==
    [][(/\ Len(ops') = Len(ops) + 1
        /\ Last(ops').op \in {"Create", "Update", "Delete"}
        /\ Last(ops').sent
        /\ ~Last(ops').ok) =>
           /\ tracked' = tracked
           /\ Last(ops').op = "Create" => tracked' = Absent
           /\ Last(ops').op \in {"Update", "Delete"} =>
                  tracked' # Absent /\ tracked' = prior']_vars

\* An Update that the remote API refused and a Delete that did not get
\* through left the instance tracked as the import before them seeded it.
C32_Witness ==
    /\ Len(ops) = 3
    /\ ops[1].op = "ImportState" /\ ops[1].ok
    /\ ops[2].op = "Update" /\ ops[2].sent /\ ops[2].net /\ ~ops[2].ok
    /\ ops[3].op = "Delete" /\ ops[3].sent /\ ~ops[3].net /\ ~ops[3].ok
    /\ tracked # Absent
    /\ tracked = prior
    /\ tracked = ImportedState(imported)

\* ------------------------------------------------------- lost responses
\* C33: when an attempt of an add, update or delete request is applied
\* remotely and its response is lost, the retried request leaves the same
\* remote state and the callback reports success, so that the tracked state
\* and the remote zone agree afterwards: a created or updated instance is
\* tracked and held remotely, a deleted one is neither.
C33_LostResponseRetried ==
    [][(/\ Len(ops') = Len(ops) + 1
        /\ Last(ops').lost) =>
           /\ Last(ops').ok
           /\ Last(ops').op \in {"Create", "Update"} =>
                  tracked' # Absent /\ RemoteHolds(tracked)'
           /\ Last(ops').op = "Delete" =>
                  tracked' = Absent /\ ~RemoteHolds(prior)']_vars

\* -------------------------------------------------------------- termination
\* C34: every execute call returns, whatever the responses are, after at
\* most retries + 1 attempts of the request, one login call per attempt and
\* the one login call of Authenticate.
C34_EveryCallTerminates ==
    /\ [](/\ Sends <= (IF retries >= 0 THEN retries + 1 ELSE 0)
          /\ Relogins <= Sends
          /\ AuthLogins <= 1)
    /\ (pc \notin {"idle", "done"}) ~> (pc = "done")

\* A call returned after every attempt was answered invalid-token and
\* every login succeeded.
C34_Witness ==
    /\ pc = "done"
    /\ retries >= 2
    /\ Sends = retries + 1
    /\ Relogins = retries + 1
    /\ NoLoginFailed
    /\ \A i \in DOMAIN SendEvents : SendEvents[i].out = "invalid-token"
    /\ result = <<"invalid-token", "session expired or invalid token">>

\* ------------------------------------------------------- envelope decoding
\* C35 (as amended): an attempt answered 2xx with a body that parses as an
\* envelope is classified by the envelope status: "ok" yields success when
\* the payload decodes into the expected result and a parse failure when it
\* does not, "error" yields an API error whose message is errorMessage if
\* non-empty, otherwise error, otherwise "unknown error", "invalid-token"
\* yields the invalid-token failure and any other status an unexpected
\* status failure; the attempt itself sends no login call and leaves the
\* stored token as it is.
C35_ClassifiedByStatus ==
    [][(/\ Len(trace') = Len(trace) + 1
        /\ Last(trace').op = "send"
        /\ lastResp'.conn /\ lastResp'.code >= 200 /\ lastResp'.code < 300
        /\ lastResp'.json) =>
           /\ Token' = Token
           /\ CASE lastResp'.status = "ok" ->
                       IF lastResp'.dataOK
                           THEN pc' = "done" /\ result' = NoErr
                       ELSE lastErr' = <<"failed to parse response data",
                                         "type error">>
                [] lastResp'.status = "error" ->
                       lastErr' = <<"API error", RemoteMessage(lastResp')>>
                [] lastResp'.status = "invalid-token" ->
                       lastErr' = <<"invalid-token",
                                    "session expired or invalid token">>
                [] OTHER ->
                       lastErr' = <<"unexpected API status",
                                    lastResp'.status>>]_vars

\* An attempt was answered with status "error", an empty errorMessage and a
\* message in error; the token stored before the call is still in place.
C35_Witness ==
    /\ trace # <<>>
    /\ Last(trace) = Event("send", "error")
    /\ lastResp.errorMessage = ""
    /\ lastResp.error = "Zone does not exist"
    /\ lastErr = <<"API error", "Zone does not exist">>
    /\ Token = "configured"

\* C35 (original): a 2xx response with envelope status "ok" yields success.
C35_Original ==
    [][(/\ Len(trace') = Len(trace) + 1
        /\ Last(trace').op = "send"
        /\ lastResp'.conn /\ lastResp'.code >= 200 /\ lastResp'.code < 300
        /\ lastResp'.json
        /\ lastResp'.status = "ok") =>
           pc' = "done" /\ result' = NoErr]_vars

C37_CommentsOnlyOnCreateAndNew ==
    \A d \in {tracked, prior, declared} \ {Absent} :
        \A opType \in {"create", "new", "current", "delete"} :
            "comments" \in DOMAIN BuildRecordOptions(d, opType)
                <=> (opType \in {"create", "new"} /\ d.Comments # None)

\* A record created with comments was deleted: the parameters of the delete
\* request held no comments, those of the add request did.
C37_Witness ==
    /\ Len(ops) = 2
    /\ ops[1].op = "Create" /\ ops[1].ok
    /\ Succeeded("Delete")
    /\ prior.Comments = Some(<<"note">>)
    /\ BuildRecordOptions(prior, "create")["comments"] = <<"note">>
    /\ DOMAIN BuildRecordOptions(prior, "delete") = {"ipAddress"}
    /\ DOMAIN BuildRecordOptions(prior, "current") = {"ipAddress"}

\* ------------------------------------------------------------ zone identity
\* C38: the identity of a tracked zone equals its name after Create, after
\* every Read and Update and after ImportState, and no callback gives a
\* tracked zone another identity than the one it had.
C38_ZoneIdentityIsName ==
    [][/\ zoneState' # Absent => zoneState'.ID = zoneState'.Name
       /\ (zoneState # Absent /\ zoneState' # Absent) =>
              zoneState'.ID = zoneState.ID]_vars

\* An imported zone went through Read and then Update.
C38_Witness ==
    /\ zoneOps = <<[op |-> "ImportState", ok |-> TRUE],
                   [op |-> "Read", ok |-> TRUE],
                   [op |-> "Update", ok |-> TRUE]>>
    /\ zoneState # Absent
    /\ zoneState.ID = ZoneName
    /\ zoneState.Name = ZoneName
    /\ zoneState.Type = <<"Primary">>
    /\ zoneState.Catalog = Some(<<"other">>)

====
